---- MODULE Spec2Model ----
(***************************************************************************)
(* Model of the scheduling engine of rustyclaw (src/scheduler/mod.rs), of   *)
(* the job store it persists to (src/memory/mod.rs), of the agent's memory *)
(* of facts and its action parser (src/agent/mod.rs) and of the workspace  *)
(* (src/workspace/mod.rs).                                                 *)
(*                                                                         *)
(* Time is counted in ticks of 1/TicksPerSec second: Utc::now() has        *)
(* sub-second resolution, cron occurrences fall on whole seconds and       *)
(* chrono's num_seconds() truncates to whole seconds.                      *)
(*                                                                         *)
(* tokio: a spawned task runs concurrently with its spawner (multi-thread  *)
(* runtime, #[tokio::main]); JoinHandle::abort only marks the task, which  *)
(* is shut down the next time it is suspended at an .await; dropping a     *)
(* JoinHandle detaches the task; tokio::sync::RwLock is fair (FIFO queue   *)
(* of waiters, write-preferring).                                          *)
(***************************************************************************)
EXTENDS Integers, Sequences, FiniteSets, TLC

\* ------------------------------------------------------------------ bounds
MaxTime == 2
MaxJobs == 2
MaxTasks == 2
MaxArcs == 3
MaxRegJobs == 1
TicksPerSec == 2
MaxFactLen == 2
MaxLogLen == 6
MaxTextLen == 5
MaxMembers == 3
MaxBlocks == 2
MaxFiles == 3

\* The two frontends that call the engine concurrently (Mode::Both).
Callers == {"tui", "telegram"}
JobIds == 1..MaxJobs

\* ------------------------------------------------- cron expressions (inputs)
\* Abstract schedule strings: what matters to the engine is the number of
\* whitespace-separated fields, whether the cron evaluator accepts the string
\* and which occurrences the evaluator enumerates.
Schedules == {"every", "once", "bad5", "four", "six"}
Messages == {"m1", "m2"}
TaskLabels == {"t1"}
Consumers == {"c1", "c2"}

\* Consumers whose future never completes (a callback that hangs).
Hanging == {"hang"}

\* schedule.split_whitespace().count()
FieldCount(s) == CASE s = "four" -> 4 [] s = "six" -> 6 [] OTHER -> 5

\* Schedule::from_str(s).is_ok()
CronAccepts(s) == s \in {"every", "once", "six"}

\* The occurrences of a schedule, in ticks (whole seconds only).
Occurrences(s) ==
    CASE s \in {"every", "six"} -> {k * TicksPerSec : k \in 1..(MaxTime + 1)}
      [] s = "once" -> {TicksPerSec}
      [] OTHER       -> {}

None == 0

Min(S) == CHOOSE x \in S : \A y \in S : x <= y

\* schedule.upcoming(Utc).next(): the first occurrence strictly after now.
Upcoming(s, t) ==
    LET later == {o \in Occurrences(s) : o > t}
    IN  IF later = {} THEN None ELSE Min(later)

\* delay.num_seconds(): whole seconds, truncated.
NumSeconds(d) == d \div TicksPerSec

\* --------------------------------------------------------------------- text
\* A text is a sequence of characters.  The facts given to the agent are drawn
\* from the texts of at most MaxFactLen characters over FactChars.
FactChars == {"a", "b", " "}
Facts == UNION {[1..n -> FactChars] : n \in 0..MaxFactLen}

\* char::is_whitespace
is_whitespace(ch) == ch \in {" ", "\n"}

RECURSIVE trim_start(_)
trim_start(s) ==
    IF s # <<>> /\ is_whitespace(Head(s)) THEN trim_start(Tail(s)) ELSE s

RECURSIVE trim_end(_)
trim_end(s) ==
    IF s # <<>> /\ is_whitespace(s[Len(s)])
    THEN trim_end(SubSeq(s, 1, Len(s) - 1))
    ELSE s

\* Mutant: the text is taken as it is given.
trim_none(s) == s

\* str::trim: the text without its leading and trailing whitespace.
trim(s) == trim_end(trim_start(s))

\* Mutant: only a whole line "- needle" of hay counts.
contains_line(hay, needle) ==
    \E i \in 0..(Len(hay) - Len(needle) - 3) :
        SubSeq(hay, i + 1, i + Len(needle) + 3) =
            <<"-", " ">> \o needle \o <<"\n">>

\* str::contains: needle occurs in hay as a substring.
contains(hay, needle) ==
    \E i \in 0..(Len(hay) - Len(needle)) :
        SubSeq(hay, i + 1, i + Len(needle)) = needle

\* The base prompt the agent is created with (one character stands for it).
BasePrompt == <<"P">>

\* The header build_full_prompt puts between the base prompt and the facts,
\* "\n\n## Personal Memory\n...:\n", shortened to its first and last lines.
MemoryHeader == <<"\n", "\n", "#", "\n">>

\* Agent::build_full_prompt
build_full_prompt(base, memory) ==
    IF memory = <<>> THEN base ELSE base \o MemoryHeader \o memory

\* memory.md is absent.
NoFile == [exists |-> FALSE, content |-> <<>>]

\* Mutant: the content of the file is taken whatever it holds.
load_memory_raw(file) ==
    IF file.exists THEN file.content ELSE <<>>

\* Agent::load_memory: the content of the file, or the empty text when the
\* file is absent or holds whitespace only.
load_memory(file) ==
    IF file.exists /\ trim(file.content) # <<>> THEN file.content ELSE <<>>

\* ------------------------------------------------------ the action parser
\* The text of a response is a sequence of tokens: the fence, the three tags,
\* whitespace, a word character, and the pieces of a JSON text.  The token
\* "fence" stands for the three backquotes.
Fence == "fence"

\* "{" and "}" delimit a JSON object, the member tokens stand for one
\* "key": value pair each (with its comma), and "n" for a JSON number.
MemberTokens == {"S5", "S4", "Sn", "T", "Tn", "M", "M2"}

\* The pair a member token stands for: a schedule of 5 fields, a schedule of
\* 4 fields, a schedule that is a number, a task, a task that is a number, a
\* message, another message.
Member(tok) ==
    CASE tok = "S5" -> [key |-> "schedule", val |-> [type |-> "string", str |-> "every"]]
      [] tok = "S4" -> [key |-> "schedule", val |-> [type |-> "string", str |-> "four"]]
      [] tok = "Sn" -> [key |-> "schedule", val |-> [type |-> "number", str |-> ""]]
      [] tok = "T"  -> [key |-> "task", val |-> [type |-> "string", str |-> "t1"]]
      [] tok = "Tn" -> [key |-> "task", val |-> [type |-> "number", str |-> ""]]
      [] tok = "M"  -> [key |-> "message", val |-> [type |-> "string", str |-> "m1"]]
      [] tok = "M2" -> [key |-> "message", val |-> [type |-> "string", str |-> "m2"]]

\* \s* : the index after the run of whitespace that starts at i.
RECURSIVE ws_end(_, _)
ws_end(t, i) ==
    IF i <= Len(t) /\ is_whitespace(t[i]) THEN ws_end(t, i + 1) ELSE i

\* \S+ : the index after the run of non-whitespace that starts at i.
RECURSIVE nonws_end(_, _)
nonws_end(t, i) ==
    IF i <= Len(t) /\ ~is_whitespace(t[i]) THEN nonws_end(t, i + 1) ELSE i

\* .*? followed by \n : "." matches no newline, so the body ends before the
\* first newline at or after i (Len(t) + 1 when there is none).
RECURSIVE line_end(_, _)
line_end(t, i) ==
    IF i <= Len(t) /\ t[i] # "\n" THEN line_end(t, i + 1) ELSE i

\* \n\s*``` : after the newline at q comes whitespace and then the fence.
closes(t, q) ==
    /\ q <= Len(t)
    /\ ws_end(t, q + 1) <= Len(t)
    /\ t[ws_end(t, q + 1)] = Fence

\* The literal that opens a block of the kind.
tag(kind) ==
    CASE kind = "cron" -> "cron"
      [] kind = "save" -> "save:"
      [] kind = "memory" -> "memory"

NoMatch == [ok |-> FALSE, name |-> <<>>, body |-> <<>>, end |-> 0]

\* \s*\n(.*?)\n\s*``` from index h on: \s* is greedy, so of the newlines of
\* the whitespace run at h the last one that lets the rest match ends the
\* opening line.
block(t, h, name) ==
    LET heads == {p \in h..(ws_end(t, h) - 1) :
                     t[p] = "\n" /\ closes(t, line_end(t, p + 1))}
    IN  IF heads = {} THEN NoMatch
        ELSE LET p == CHOOSE x \in heads : \A y \in heads : y <= x
                 q == line_end(t, p + 1)
             IN  [ok |-> TRUE, name |-> name,
                  body |-> SubSeq(t, p + 1, q - 1),
                  end |-> ws_end(t, q + 1)]

\* The match of the regex of the kind that starts at index i, if there is one:
\* ```cron\s*\n(.*?)\n\s*```, ```save:(\S+)\s*\n(.*?)\n\s*``` and
\* ```memory\s*\n(.*?)\n\s*``` (lines 230, 276, 286 and 306-312).
match_at(t, i, kind) ==
    IF ~(i + 1 <= Len(t) /\ t[i] = Fence /\ t[i + 1] = tag(kind))
    THEN NoMatch
    ELSE IF kind = "save"
         THEN IF nonws_end(t, i + 2) = i + 2 THEN NoMatch
              ELSE block(t, nonws_end(t, i + 2),
                         SubSeq(t, i + 2, nonws_end(t, i + 2) - 1))
         ELSE block(t, i + 2, <<>>)

\* Regex::captures_iter: the matches from index i on, leftmost first and not
\* overlapping.
RECURSIVE captures_iter(_, _, _)
captures_iter(t, i, kind) ==
    IF i > Len(t) THEN <<>>
    ELSE LET m == match_at(t, i, kind)
         IN  IF m.ok THEN <<m>> \o captures_iter(t, m.end + 1, kind)
             ELSE captures_iter(t, i + 1, kind)

\* Regex::replace_all(text, ""): the text without the matches.
RECURSIVE replace_all(_, _, _)
replace_all(t, i, kind) ==
    IF i > Len(t) THEN <<>>
    ELSE LET m == match_at(t, i, kind)
         IN  IF m.ok THEN replace_all(t, m.end + 1, kind)
             ELSE <<t[i]>> \o replace_all(t, i + 1, kind)

\* JSON text without the whitespace between its tokens.
json_tokens(b) == SelectSeq(b, LAMBDA ch : ~is_whitespace(ch))

\* serde_json::from_str::<Value>: a number, or an object of members (the last
\* member of a key wins); anything else is an error.
from_str(b) ==
    LET w == json_tokens(b)
    IN  IF w = <<"n">>
        THEN [ok |-> TRUE, object |-> FALSE, keys |-> {}, members |-> <<>>]
        ELSE IF /\ Len(w) >= 2 /\ w[1] = "{" /\ w[Len(w)] = "}"
                /\ \A k \in 2..(Len(w) - 1) : w[k] \in MemberTokens
             THEN [ok |-> TRUE, object |-> TRUE,
                   keys |-> {Member(w[k]).key : k \in 2..(Len(w) - 1)},
                   members |-> SubSeq(w, 2, Len(w) - 1)]
             ELSE [ok |-> FALSE, object |-> FALSE, keys |-> {},
                   members |-> <<>>]

\* json[key]: the value of the last member with the key.
json_index(json, key) ==
    LET at == {k \in 1..Len(json.members) : Member(json.members[k]).key = key}
    IN  Member(json.members[CHOOSE x \in at : \A y \in at : y <= x]).val

\* json[key].as_str().unwrap_or("").to_string()
as_str_or_empty(json, key) ==
    IF json_index(json, key).type = "string" THEN json_index(json, key).str
    ELSE ""

\* schedule.split_whitespace().count()
split_whitespace_count(s) == IF s = "" THEN 0 ELSE FieldCount(s)

\* The required keys the object lacks, in the order of line 238.
missing(json) ==
    SelectSeq(<<"schedule", "task", "message">>,
              LAMBDA k : k \notin json.keys)

\* [..].join(sep): the texts of the sequence with sep between them.
RECURSIVE join(_, _)
join(seq, sep) ==
    IF seq = <<>> THEN <<>>
    ELSE IF Len(seq) = 1 THEN seq
    ELSE <<Head(seq), sep>> \o join(Tail(seq), sep)

\* Line 245: format!("Missing required fields: {}", missing.join(", "))
missing_fields_error(json) ==
    <<"Missing required fields: ">> \o join(missing(json), ", ")

\* Lines 253-256: format!("Invalid cron format '{}' - needs 5 fields
\* (minute hour day month weekday)", schedule)
invalid_format_error(schedule) ==
    <<"Invalid cron format '", schedule,
      "' - needs 5 fields (minute hour day month weekday)">>

\* Lines 235-269: what one captured block adds to the jobs or to the errors.
cron_block(m) ==
    LET json == from_str(trim(m.body))
    IN  IF ~json.ok
        THEN [ok |-> FALSE, error |-> <<"Invalid JSON in cron block">>]
        ELSE IF missing(json) # <<>>
        THEN [ok |-> FALSE, error |-> missing_fields_error(json)]
        ELSE IF split_whitespace_count(as_str_or_empty(json, "schedule")) # 5
        THEN [ok |-> FALSE,
              error |-> invalid_format_error(as_str_or_empty(json, "schedule"))]
        ELSE [ok |-> TRUE,
              job |-> [schedule |-> as_str_or_empty(json, "schedule"),
                       task |-> as_str_or_empty(json, "task"),
                       message |-> as_str_or_empty(json, "message")]]

RECURSIVE cron_jobs_of(_)
cron_jobs_of(caps) ==
    IF caps = <<>> THEN <<>>
    ELSE (IF cron_block(Head(caps)).ok THEN <<cron_block(Head(caps)).job>>
          ELSE <<>>) \o cron_jobs_of(Tail(caps))

RECURSIVE cron_errors_of(_)
cron_errors_of(caps) ==
    IF caps = <<>> THEN <<>>
    ELSE (IF cron_block(Head(caps)).ok THEN <<>>
          ELSE <<cron_block(Head(caps)).error>>) \o cron_errors_of(Tail(caps))

\* Agent::parse_cron_blocks
parse_cron_blocks(text) ==
    [jobs |-> cron_jobs_of(captures_iter(text, 1, "cron")),
     errors |-> cron_errors_of(captures_iter(text, 1, "cron"))]

RECURSIVE save_blocks_of(_)
save_blocks_of(caps) ==
    IF caps = <<>> THEN <<>>
    ELSE <<[filename |-> Head(caps).name, content |-> Head(caps).body]>>
         \o save_blocks_of(Tail(caps))

\* Agent::parse_save_blocks
parse_save_blocks(text) == save_blocks_of(captures_iter(text, 1, "save"))

RECURSIVE memory_facts_of(_)
memory_facts_of(caps) ==
    IF caps = <<>> THEN <<>>
    ELSE (IF trim(Head(caps).body) # <<>> THEN <<trim(Head(caps).body)>>
          ELSE <<>>) \o memory_facts_of(Tail(caps))

\* Agent::parse_memory_blocks
parse_memory_blocks(text) == memory_facts_of(captures_iter(text, 1, "memory"))

\* Mutant: the text is not trimmed after the blocks are removed.
clean_response_untrimmed(text) ==
    replace_all(replace_all(replace_all(text, 1, "cron"), 1, "save"),
                1, "memory")

\* Agent::clean_response
clean_response(text) ==
    trim(replace_all(replace_all(replace_all(text, 1, "cron"), 1, "save"),
                     1, "memory"))

\* ------------------------------------------------------------------- state
VARIABLES
    now,        \* Utc::now(), in ticks
    store,      \* cron_jobs table: row i has id i (AUTOINCREMENT)
    jobs,       \* Scheduler.jobs: job id -> JoinHandle (task id), 0 = no entry
    tasks,      \* the timer tasks spawned so far, by spawn order
    callbacks,  \* Scheduler.callbacks: Vec<SendCallback>
    cbReaders,  \* tasks holding a read guard of the callbacks lock
    cbQueue,    \* FIFO queue of waiters of the callbacks lock
    nextArc,    \* allocation counter: identity of the next Arc::new
    call,       \* per caller: the engine operation in progress
    ret,        \* what the last step returned to its caller, if it returned
    hist,       \* per job id, history: a callback was invoked for the job
                \* (fired); a cancel_job called after its add_job returned has
                \* returned before its first fire time (early)
    memory_file,    \* the file memory.md: whether it exists, and its content
    memory_content, \* Agent.memory_content: the cached fact blob
    system_prompt,  \* Agent.system_prompt: the cached prompt
    saved,          \* history: the facts whose save_to_memory returned true
    jobsHolder, \* who holds the write guard of Scheduler.jobs across steps
    jobsQueue,  \* FIFO queue of waiters of the lock of Scheduler.jobs
    stopped,    \* history: Scheduler::stop has returned
    files       \* the workspace directory: file name -> content, or absent

\* The state of the agent.
agentVars == <<memory_file, memory_content, system_prompt, saved>>

\* The state of the scheduling engine and of its callers.
schedVars == <<now, store, jobs, tasks, callbacks, cbReaders, cbQueue, nextArc,
               hist>>

\* The lock of the map of live timers, and the history of stop().
lockVars == <<jobsHolder, jobsQueue, stopped>>

vars == <<now, store, jobs, tasks, callbacks, cbReaders, cbQueue, nextArc,
          call, ret, hist, memory_file, memory_content, system_prompt, saved,
          jobsHolder, jobsQueue, stopped, files>>

Idle == [op |-> "idle", pc |-> "idle", schedule |-> "", task |-> "",
         message |-> "", job_id |-> 0, handle |-> 0, pending |-> <<>>,
         arc |-> 0, consumer |-> "", seq |-> FALSE, again |-> FALSE]

NoRet == [op |-> "none"]

NoHist == [fired |-> FALSE, early |-> FALSE]

\* Nobody holds the write guard of Scheduler.jobs.
NoHolder == [kind |-> "none", who |-> 0]

\* Scheduler::new: the lock of the map of live timers is free, and stop() was
\* not called.
SchedulerNew ==
    /\ jobsHolder = NoHolder
    /\ jobsQueue = <<>>
    /\ stopped = FALSE

\* Agent::new (lines 58-73): the facts are loaded from the file and the prompt
\* is built from them.
AgentNew(file) ==
    /\ memory_file = file
    /\ memory_content = load_memory(file)
    /\ system_prompt = build_full_prompt(BasePrompt, load_memory(file))
    /\ saved = {}

Init ==
    /\ AgentNew(NoFile)
    /\ now = 0
    /\ store = <<>>
    /\ jobs = [i \in JobIds |-> 0]
    /\ tasks = <<>>
    /\ callbacks = <<>>
    /\ cbReaders = {}
    /\ cbQueue = <<>>
    /\ nextArc = 1
    /\ call = [c \in Callers |-> Idle]
    /\ ret = NoRet
    /\ hist = [i \in JobIds |-> NoHist]
    /\ SchedulerNew
    /\ files = <<>>

\* ----------------------------------------------------------------- helpers
\* Tasks that operations in progress are still going to spawn.
ToSpawn(c) ==
    CASE call[c].pc = "spawn"     -> Len(call[c].pending)
      [] call[c].pc = "insert"    -> Len(call[c].pending) - 1
      [] OTHER                    -> 0

RECURSIVE SumOver(_)
SumOver(S) ==
    IF S = {} THEN 0
    ELSE LET c == CHOOSE x \in S : TRUE IN ToSpawn(c) + SumOver(S \ {c})

Reserved == SumOver(Callers)

\* The operation of caller c returns: Ok(val) or Err.
Return(c, op, ok, val) ==
    /\ call' = [call EXCEPT ![c] = Idle]
    /\ ret' = [op |-> op, caller |-> c, ok |-> ok, val |-> val, was |-> call[c]]

\* A step that returns nothing to a caller.
NoReturn == ret' = NoRet

\* ------------------------------------------------------------ the job store
\* Memory::add_cron_job: INSERT, enabled defaults to 1, id = last rowid.
add_cron_job(s, t, m) ==
    Append(store, [schedule |-> s, task |-> t, message |-> m, enabled |-> TRUE])

\* Memory::get_cron_jobs: SELECT ... WHERE enabled = 1, in rowid order.
RECURSIVE EnabledFrom(_)
EnabledFrom(i) ==
    IF i > Len(store) THEN <<>>
    ELSE IF store[i].enabled THEN <<i>> \o EnabledFrom(i + 1)
    ELSE EnabledFrom(i + 1)

get_cron_jobs == EnabledFrom(1)

\* Mutant: the UPDATE flips the flag, so a second cancel re-enables the job.
disable_cron_job_toggle(id) ==
    IF id \in 1..Len(store)
    THEN [store EXCEPT ![id].enabled = ~store[id].enabled]
    ELSE store

\* Memory::disable_cron_job: UPDATE cron_jobs SET enabled = 0 WHERE id = ?
disable_cron_job(id) ==
    IF id \in 1..Len(store) THEN [store EXCEPT ![id].enabled = FALSE] ELSE store

\* result.rows_affected() > 0: the rows the WHERE clause matches.
rows_affected(id) == IF id \in 1..Len(store) THEN 1 ELSE 0

\* --------------------------------------------------------------- scheduler
\* Mutant: the field count alone, without asking the cron evaluator.
validate_cron_fields_only(s) == FieldCount(s) = 5

\* Scheduler::validate_cron
validate_cron(s) == FieldCount(s) = 5 /\ CronAccepts(s)

\* Time advances.
Tick ==
    /\ now < MaxTime
    /\ now' = now + 1
    /\ UNCHANGED <<agentVars, lockVars, files, store, jobs, tasks, callbacks, cbReaders, cbQueue, nextArc,
                   call, hist>>
    /\ NoReturn


\* ---------------------------------------------------------------- add_job
\* Scheduler::add_job, lines 68-78: an invalid schedule returns Err before
\* anything else happens; a valid one is written to the store, which assigns
\* the id.
AddJob(c, s, t, m) ==
    /\ call[c].op = "idle"
    /\ IF validate_cron(s)
       THEN /\ Len(store) < MaxJobs
            /\ Len(tasks) + Reserved < MaxTasks
            /\ store' = add_cron_job(s, t, m)
            /\ call' = [call EXCEPT ![c] = [Idle EXCEPT !.op = "add",
                          !.pc = "spawn", !.schedule = s, !.task = t,
                          !.message = m, !.job_id = Len(store) + 1,
                          !.pending = <<Len(store) + 1>>]]
            /\ NoReturn
       ELSE /\ UNCHANGED <<store, call>>
            /\ ret' = [op |-> "add", caller |-> c, ok |-> FALSE, val |-> 0,
                       was |-> [Idle EXCEPT !.op = "add", !.schedule = s,
                                            !.task = t, !.message = m]]
    /\ UNCHANGED <<agentVars, lockVars, files, now, jobs, tasks, callbacks, cbReaders, cbQueue, nextArc, hist>>

\* ------------------------------------------------------------ schedule_job
NewTask(id) ==
    [job_id |-> id, schedule |-> store[id].schedule,
     message |-> store[id].message, pc |-> "spawned", next |-> None,
     wake |-> 0, idx |-> 0, aborted |-> FALSE, delivered |-> <<>>]

\* Mutant: load_jobs returns the failure of schedule_job, as add_job does.
AfterSchedule_propagate(c, ok) ==
    IF call[c].op = "add" \/ ~ok
    THEN Return(c, call[c].op, ok, IF ok THEN call[c].job_id ELSE 0)
    ELSE IF Len(call[c].pending) > 1
         THEN /\ call' = [call EXCEPT ![c].pc = "spawn",
                                      ![c].pending = Tail(call[c].pending),
                                      ![c].handle = 0]
              /\ NoReturn
         ELSE Return(c, "load", TRUE, 0)

\* What the caller of schedule_job does with its result: add_job returns it
\* (with `?`), load_jobs logs a failure and goes on with the next job.
AfterSchedule(c, ok) ==
    IF call[c].op = "add"
    THEN Return(c, "add", ok, IF ok THEN call[c].job_id ELSE 0)
    ELSE IF Len(call[c].pending) > 1
         THEN /\ call' = [call EXCEPT ![c].pc = "spawn",
                                      ![c].pending = Tail(call[c].pending),
                                      ![c].handle = 0]
              /\ NoReturn
         ELSE Return(c, "load", TRUE, 0)

\* Scheduler::schedule_job, lines 116-150: parse the schedule and spawn the
\* timer task, which starts running on its own.
ScheduleSpawn(c) ==
    /\ call[c].pc = "spawn"
    /\ LET id == Head(call[c].pending)
       IN  IF CronAccepts(store[id].schedule)
           THEN /\ tasks' = Append(tasks, NewTask(id))
                /\ call' = [call EXCEPT ![c].pc = "insert",
                                        ![c].handle = Len(tasks) + 1]
                /\ NoReturn
           ELSE /\ AfterSchedule(c, FALSE)
                /\ UNCHANGED tasks
    /\ UNCHANGED <<agentVars, lockVars, files, now, store, jobs, callbacks, cbReaders, cbQueue, nextArc, hist>>

\* -------------------------------------------------- the lock of the timers
\* The threads that take the write guard of Scheduler.jobs: a caller inside
\* schedule_job or cancel_job, and a timer task whose loop has ended.
CallerW(c) == [kind |-> "caller", who |-> c]

TaskW(t) == [kind |-> "task", who |-> t]

\* Thread w is at jobs.write().await (lines 88, 148, 152).
AtJobsWrite(w) ==
    IF w.kind = "caller"
    THEN call[w.who].pc \in {"insert", "cancel_lock"}
    ELSE w.who <= Len(tasks) /\ tasks[w.who].pc = "remove"

\* The write guard is dropped: tokio's RwLock is fair, the lock passes to the
\* waiter that has waited longest.
JobsRelease ==
    IF jobsQueue = <<>>
    THEN /\ jobsHolder' = NoHolder
         /\ jobsQueue' = jobsQueue
    ELSE /\ jobsHolder' = Head(jobsQueue)
         /\ jobsQueue' = Tail(jobsQueue)

\* A critical section of Scheduler.jobs, none of which suspends: thread w
\* either takes the free lock and drops it in the same step, or it holds the
\* guard already and drops it now.
JobsWrite(w) ==
    /\ IF jobsHolder = w
       THEN JobsRelease
       ELSE /\ jobsHolder = NoHolder
            /\ UNCHANGED <<jobsHolder, jobsQueue>>
    /\ UNCHANGED stopped

\* jobs.write().await finds the lock free; the thread is pre-empted before
\* its critical section (the runtime is multi-threaded).
JobsAcquire(w) ==
    /\ AtJobsWrite(w)
    /\ jobsHolder = NoHolder
    /\ jobsHolder' = w
    /\ UNCHANGED <<agentVars, files, now, store, jobs, tasks, callbacks,
                   cbReaders, cbQueue, nextArc, call, hist, jobsQueue, stopped>>
    /\ NoReturn

\* The elements of a queue.
Waiting(q) == {q[i] : i \in 1..Len(q)}

\* jobs.write().await finds the lock held: the thread joins the queue and is
\* suspended.
JobsWait(w) ==
    /\ AtJobsWrite(w)
    /\ jobsHolder \notin {NoHolder, w}
    /\ w \notin Waiting(jobsQueue)
    /\ jobsQueue' = Append(jobsQueue, w)
    /\ tasks' = IF w.kind = "task"
                THEN [tasks EXCEPT ![w.who].pc = "jobs_wait"]
                ELSE tasks
    /\ UNCHANGED <<agentVars, files, now, store, jobs, callbacks, cbReaders,
                   cbQueue, nextArc, call, hist, jobsHolder, stopped>>
    /\ NoReturn

\* HashMap::insert: an entry already there for the id is replaced, and the
\* JoinHandle it held is dropped, which detaches its task.
jobs_insert(id, handle) == [jobs EXCEPT ![id] = handle]

\* Scheduler::schedule_job, lines 152-155: insert the handle in the map.
ScheduleInsert(c) ==
    /\ call[c].pc = "insert"
    /\ LET id == Head(call[c].pending)
       IN  jobs' = jobs_insert(id, call[c].handle)
    /\ AfterSchedule(c, TRUE)
    /\ JobsWrite(CallerW(c))
    /\ UNCHANGED <<agentVars, files, now, store, tasks, callbacks, cbReaders,
                   cbQueue, nextArc, hist>>

\* --------------------------------------------------------------- load_jobs
\* Scheduler::load_jobs: enumerate the enabled jobs, then schedule each.
LoadJobsBegin(c) ==
    /\ call[c].op = "idle"
    /\ LET found == get_cron_jobs
       IN  /\ Len(tasks) + Reserved + Len(found) <= MaxTasks
           /\ IF found = <<>>
              THEN Return(c, "load", TRUE, 0)
              ELSE /\ call' = [call EXCEPT ![c] = [Idle EXCEPT !.op = "load",
                                 !.pc = "spawn", !.pending = found]]
                   /\ NoReturn
    /\ UNCHANGED <<agentVars, lockVars, files, now, store, jobs, tasks, callbacks, cbReaders, cbQueue,
                   nextArc, hist>>

\* --------------------------------------------------------------- list_jobs
\* Scheduler::list_jobs: the enabled jobs of the store.
list_jobs == get_cron_jobs

\* -------------------------------------------------------------- cancel_job
\* History: the add_job that created job id has returned.
AddReturned(id) ==
    /\ id \in 1..Len(store)
    /\ ~\E c \in Callers : call[c].op = "add" /\ call[c].job_id = id

\* History: an earlier cancel_job of job id has returned.
CancelReturned(id) ==
    /\ id \in 1..Len(store)
    /\ ~store[id].enabled
    /\ ~\E c \in Callers : call[c].op = "cancel" /\ call[c].job_id = id

\* The first occurrence of the schedule of job id.
FirstFire(id) == Upcoming(store[id].schedule, 0)

\* Scheduler::cancel_job, line 86: disable the row in the store.
CancelJobBegin(c, id) ==
    /\ call[c].op = "idle"
    /\ store' = disable_cron_job(id)
    /\ IF rows_affected(id) > 0
       THEN /\ call' = [call EXCEPT ![c] = [Idle EXCEPT !.op = "cancel",
                          !.pc = "cancel_lock", !.job_id = id,
                          !.seq = AddReturned(id),
                          !.again = CancelReturned(id)]]
            /\ NoReturn
       ELSE /\ call' = call
            /\ ret' = [op |-> "cancel", caller |-> c, ok |-> TRUE, val |-> 0,
                       was |-> [Idle EXCEPT !.op = "cancel", !.job_id = id]]
    /\ UNCHANGED <<agentVars, lockVars, files, now, jobs, tasks, callbacks, cbReaders, cbQueue, nextArc, hist>>

\* The task is suspended at an .await (or was never polled).
Suspended(t) ==
    tasks[t].pc \in {"spawned", "sleep", "lock_wait", "in_callback", "jobs_wait"}

\* The task has completed (Exhausted) or was shut down (Cancelled).
Ended(t) == tasks[t].pc \in {"finished", "cancelled"}

\* Mutant: the handle is dropped without aborting the task.
abort_dropped(h) == tasks

\* JoinHandle::abort: the task is marked, and is shut down when it is next
\* suspended at an .await (at once if it is suspended now); aborting a task
\* that has completed does nothing.
abort(h) == IF Ended(h) THEN tasks ELSE [tasks EXCEPT ![h].aborted = TRUE]

\* Scheduler::cancel_job, lines 88-96: remove the map entry, abort its task.
CancelJobRemove(c) ==
    /\ call[c].pc = "cancel_lock"
    /\ LET id == call[c].job_id
       IN  /\ jobs' = [jobs EXCEPT ![id] = 0]
           /\ tasks' = IF jobs[id] # 0 THEN abort(jobs[id]) ELSE tasks
           /\ hist' = [hist EXCEPT ![id].early =
                         @ \/ (call[c].seq /\ now < FirstFire(id))]
    /\ Return(c, "cancel", TRUE, 1)
    /\ JobsWrite(CallerW(c))
    /\ UNCHANGED <<agentVars, files, now, store, callbacks, cbReaders, cbQueue,
                   nextArc>>


\* -------------------------------------------------------------------- stop
\* Lines 160-162: handle.abort() for every entry of the map.
abort_all ==
    [t \in DOMAIN tasks |->
        IF (\E id \in JobIds : jobs[id] = t) /\ ~Ended(t)
        THEN [tasks[t] EXCEPT !.aborted = TRUE]
        ELSE tasks[t]]

\* Scheduler::stop (lines 158-165), called by main once a frontend has ended
\* (bin/rustyclaw.rs, line 151): try_write() fails when the lock is held, and
\* stop then returns without aborting anything; the map is not cleared.
Stop ==
    /\ ~stopped
    /\ tasks' = IF jobsHolder = NoHolder THEN abort_all ELSE tasks
    /\ stopped' = TRUE
    /\ ret' = [op |-> "stop", caller |-> "main", ok |-> TRUE, val |-> 0,
               was |-> Idle]
    /\ UNCHANGED <<agentVars, files, now, store, jobs, callbacks, cbReaders,
                   cbQueue, nextArc, call, hist, jobsHolder, jobsQueue>>

\* ----------------------------------------------------------- store failures
\* The outcome of a call of the store: the query succeeds or fails (sqlx::Error).
StoreOutcomes == {"ok", "err"}

\* `?` on the failed store call of operation op: the operation of caller c
\* returns the error at once.  w records the call and where it ended.
StoreErr(c, op, w) ==
    /\ call[c].op = "idle"
    /\ ret' = [op |-> op, caller |-> c, ok |-> FALSE, val |-> 0,
               was |-> [w EXCEPT !.op = op, !.pc = "store"]]
    /\ UNCHANGED <<agentVars, lockVars, files, now, store, jobs, tasks, callbacks, cbReaders, cbQueue,
                   nextArc, call, hist>>

\* Scheduler::add_job with the outcome of memory.add_cron_job (line 70), which
\* is only called for a valid schedule.
AddJobIO(c, s, t, m, db) ==
    IF db = "ok" \/ ~validate_cron(s)
    THEN AddJob(c, s, t, m)
    ELSE StoreErr(c, "add", [Idle EXCEPT !.schedule = s, !.task = t,
                                         !.message = m])

\* Scheduler::load_jobs with the outcome of memory.get_cron_jobs (line 55).
LoadJobsIO(c, db) ==
    IF db = "ok" THEN LoadJobsBegin(c) ELSE StoreErr(c, "load", Idle)

\* Mutant: the timer is removed and aborted before the store is asked.
CancelJobIO_abort_first(c, id, db) ==
    IF db = "ok"
    THEN CancelJobBegin(c, id)
    ELSE /\ call[c].op = "idle"
         /\ jobs' = [jobs EXCEPT ![id] = 0]
         /\ tasks' = IF jobs[id] # 0 THEN abort(jobs[id]) ELSE tasks
         /\ ret' = [op |-> "cancel", caller |-> c, ok |-> FALSE, val |-> 0,
                    was |-> [Idle EXCEPT !.op = "cancel", !.pc = "store",
                                         !.job_id = id]]
         /\ UNCHANGED <<agentVars, lockVars, files, now, store, callbacks, cbReaders, cbQueue, nextArc,
                        call, hist>>

\* Scheduler::cancel_job with the outcome of memory.disable_cron_job (line 86).
CancelJobIO(c, id, db) ==
    IF db = "ok"
    THEN CancelJobBegin(c, id)
    ELSE StoreErr(c, "cancel", [Idle EXCEPT !.job_id = id])

\* Scheduler::list_jobs with the outcome of memory.get_cron_jobs (line 100):
\* the enabled jobs, or the error.
ListJobs(c, db) ==
    IF db = "ok"
    THEN /\ call[c].op = "idle"
         /\ ret' = [op |-> "list", caller |-> c, ok |-> TRUE, val |-> list_jobs,
                    was |-> [Idle EXCEPT !.op = "list"]]
         /\ UNCHANGED <<agentVars, lockVars, files, now, store, jobs, tasks, callbacks, cbReaders, cbQueue,
                        nextArc, call, hist>>
    ELSE StoreErr(c, "list", Idle)

\* ------------------------------------------------------ callback registry
\* Both registration functions wrap the consumer in a new Arc (lines 37, 47)
\* and then wait for the write lock of the registry.
RegisterBegin(c, op, k) ==
    /\ call[c].op = "idle"
    /\ nextArc <= MaxArcs
    /\ call' = [call EXCEPT ![c] = [Idle EXCEPT !.op = op, !.pc = "cb_wait",
                                    !.arc = nextArc, !.consumer = k]]
    /\ nextArc' = nextArc + 1
    /\ cbQueue' = Append(cbQueue, [kind |-> "w", who |-> c])
    /\ UNCHANGED <<agentVars, lockVars, files, now, store, jobs, tasks, callbacks, cbReaders, hist>>
    /\ NoReturn

SetSendCallbackBegin(c, k) == RegisterBegin(c, "set", k)

AddSendCallbackBegin(c, k) == RegisterBegin(c, "add_cb", k)

\* Mutant: the consumer is pushed instead of replacing the registry.
set_send_callback_push(cbs, cb) == Append(cbs, cb)

\* Scheduler::set_send_callback, line 39: *callbacks = vec![cb]
set_send_callback(cbs, cb) == <<cb>>

\* Scheduler::add_send_callback, lines 49-51: push unless an entry is the
\* same Arc (Arc::ptr_eq compares the allocations, not the consumers).
add_send_callback(cbs, cb) ==
    IF \E i \in 1..Len(cbs) : cbs[i].arc = cb.arc THEN cbs ELSE Append(cbs, cb)

\* The write lock is granted to the first waiter once no read guard is held;
\* the registry is changed and the guard dropped without suspending.
RegisterWrite(c) ==
    /\ call[c].pc = "cb_wait"
    /\ cbQueue # <<>>
    /\ Head(cbQueue) = [kind |-> "w", who |-> c]
    /\ cbReaders = {}
    /\ LET cb == [arc |-> call[c].arc, consumer |-> call[c].consumer]
       IN  callbacks' = IF call[c].op = "set"
                        THEN set_send_callback(callbacks, cb)
                        ELSE add_send_callback(callbacks, cb)
    /\ cbQueue' = Tail(cbQueue)
    /\ Return(c, call[c].op, TRUE, 0)
    /\ UNCHANGED <<agentVars, lockVars, files, now, store, jobs, tasks, cbReaders, nextArc, hist>>

\* -------------------------------------------------------- the timer task
\* The body of the task spawned by schedule_job (lines 122-150).  A step of a
\* task runs it from one .await to the next; a task that wakes from its sleep
\* is first "trigger"ed (line 133), so that what the other threads do while
\* it runs is interleaved with it.
\* Lines 124-131 for task record r: compute the next occurrence and the delay
\* until it, then sleep for the whole seconds of the delay, if there are any.
Rearm(r) ==
    LET next == Upcoming(r.schedule, now)
        secs == NumSeconds(next - now)
    IN  IF next = None THEN [r EXCEPT !.pc = "remove", !.next = None]
        ELSE IF secs > 0
             THEN [r EXCEPT !.pc = "sleep", !.next = next,
                            !.wake = now + secs * TicksPerSec]
             ELSE [r EXCEPT !.pc = "trigger", !.next = next]

\* The task is polled for the first time.
TaskStart(t) ==
    /\ tasks[t].pc = "spawned"
    /\ ~tasks[t].aborted
    /\ tasks' = [tasks EXCEPT ![t] = Rearm(@)]
    /\ UNCHANGED <<agentVars, lockVars, files, now, store, jobs, callbacks, cbReaders, cbQueue, nextArc,
                   call, hist>>
    /\ NoReturn

\* Line 130: tokio::time::sleep elapses.
TaskWake(t) ==
    /\ tasks[t].pc = "sleep"
    /\ ~tasks[t].aborted
    /\ now >= tasks[t].wake
    /\ tasks' = [tasks EXCEPT ![t].pc = "trigger", ![t].wake = 0]
    /\ UNCHANGED <<agentVars, lockVars, files, now, store, jobs, callbacks, cbReaders, cbQueue, nextArc,
                   call, hist>>
    /\ NoReturn

\* Mutant: the registry is walked from its end.
Invoke_reversed(r, i) ==
    [r EXCEPT !.pc = "in_callback", !.idx = i,
              !.delivered = Append(@,
                  [consumer |-> callbacks[Len(callbacks) + 1 - i].consumer,
                   message |-> r.message])]

\* Line 140: callback(message.clone()) is called and awaited.  delivered is
\* the log of the invocations of the fire event in progress.
Invoke(r, i) ==
    [r EXCEPT !.pc = "in_callback", !.idx = i,
              !.delivered = Append(@, [consumer |-> callbacks[i].consumer,
                                       message |-> r.message])]

\* Mutant: an empty registry is an error that ends the loop.
Acquired_break(t) ==
    IF callbacks = <<>>
    THEN /\ tasks' = [tasks EXCEPT ![t].pc = "remove"]
         /\ UNCHANGED <<cbReaders, hist>>
    ELSE /\ tasks' = [tasks EXCEPT ![t] = Invoke(@, 1)]
         /\ cbReaders' = cbReaders \cup {t}
         /\ hist' = [hist EXCEPT ![tasks[t].job_id].fired = TRUE]

\* Mutant: the fire event is skipped, the loop goes on without a fan-out.
Acquired_skips(t) ==
    /\ tasks' = [tasks EXCEPT ![t] = Rearm(@)]
    /\ UNCHANGED <<cbReaders, hist>>

\* Lines 135-142 with the read guard: an empty registry drops the message
\* (line 137) and the loop goes on; otherwise the fan-out starts.
Acquired(t) ==
    IF callbacks = <<>>
    THEN /\ tasks' = [tasks EXCEPT ![t] = Rearm(@)]
         /\ UNCHANGED <<cbReaders, hist>>
    ELSE /\ tasks' = [tasks EXCEPT ![t] = Invoke(@, 1)]
         /\ cbReaders' = cbReaders \cup {t}
         /\ hist' = [hist EXCEPT ![tasks[t].job_id].fired = TRUE]

\* Lines 133-135: callbacks.read().await, which queues behind waiting writers.
TaskTrigger(t) ==
    /\ tasks[t].pc = "trigger"
    /\ IF cbQueue = <<>>
       THEN /\ Acquired(t)
            /\ UNCHANGED cbQueue
       ELSE /\ tasks' = [tasks EXCEPT ![t].pc = "lock_wait"]
            /\ cbQueue' = Append(cbQueue, [kind |-> "r", who |-> t])
            /\ UNCHANGED <<cbReaders, hist>>
    /\ UNCHANGED <<agentVars, lockVars, files, now, store, jobs, callbacks, nextArc, call>>
    /\ NoReturn

\* A queued reader gets the guard when it is first in the queue.
TaskGranted(t) ==
    /\ tasks[t].pc = "lock_wait"
    /\ ~tasks[t].aborted
    /\ cbQueue # <<>>
    /\ Head(cbQueue) = [kind |-> "r", who |-> t]
    /\ Acquired(t)
    /\ cbQueue' = Tail(cbQueue)
    /\ UNCHANGED <<agentVars, lockVars, files, now, store, jobs, callbacks, nextArc, call>>
    /\ NoReturn

\* Mutant: the read guard outlives the fan-out, the task keeps it until it
\* ends.
TaskCallbackDone_keeps_guard(t) ==
    /\ tasks[t].pc = "in_callback"
    /\ ~tasks[t].aborted
    /\ callbacks[tasks[t].idx].consumer \notin Hanging
    /\ IF tasks[t].idx < Len(callbacks)
       THEN tasks' = [tasks EXCEPT ![t] = Invoke(@, tasks[t].idx + 1)]
       ELSE tasks' = [tasks EXCEPT ![t] =
                        Rearm([@ EXCEPT !.idx = 0, !.delivered = <<>>])]
    /\ UNCHANGED <<agentVars, lockVars, files, now, store, jobs, callbacks,
                   cbReaders, cbQueue, nextArc, call, hist>>
    /\ NoReturn

\* The callback's future completes: the next callback is called or, after the
\* last one, the read guard is dropped and the loop starts over.
TaskCallbackDone(t) ==
    /\ tasks[t].pc = "in_callback"
    /\ ~tasks[t].aborted
    /\ callbacks[tasks[t].idx].consumer \notin Hanging
    /\ IF tasks[t].idx < Len(callbacks)
       THEN /\ tasks' = [tasks EXCEPT ![t] = Invoke(@, tasks[t].idx + 1)]
            /\ UNCHANGED cbReaders
       ELSE /\ tasks' = [tasks EXCEPT ![t] =
                           Rearm([@ EXCEPT !.idx = 0, !.delivered = <<>>])]
            /\ cbReaders' = cbReaders \ {t}
    /\ UNCHANGED <<agentVars, lockVars, files, now, store, jobs, callbacks, cbQueue, nextArc, call, hist>>
    /\ NoReturn

\* Mutant: the exhausted job is also disabled in the store.
TaskRemove_disables(t) ==
    /\ tasks[t].pc \in {"remove", "jobs_wait"}
    /\ JobsWrite(TaskW(t))
    /\ jobs' = [jobs EXCEPT ![tasks[t].job_id] = 0]
    /\ store' = disable_cron_job(tasks[t].job_id)
    /\ tasks' = [tasks EXCEPT ![t].pc = "finished"]
    /\ UNCHANGED <<agentVars, files, now, callbacks, cbReaders, cbQueue,
                   nextArc, call, hist>>
    /\ NoReturn

\* Lines 148-149: the loop has ended, the task removes its id from the map
\* (a task that waited for the lock goes on once the lock is passed to it).
TaskRemove(t) ==
    /\ tasks[t].pc \in {"remove", "jobs_wait"}
    /\ JobsWrite(TaskW(t))
    /\ jobs' = [jobs EXCEPT ![tasks[t].job_id] = 0]
    /\ tasks' = [tasks EXCEPT ![t].pc = "finished"]
    /\ UNCHANGED <<agentVars, files, now, store, callbacks, cbReaders, cbQueue,
                   nextArc, call, hist>>
    /\ NoReturn

RECURSIVE Without(_, _)
Without(q, e) ==
    IF q = <<>> THEN <<>>
    ELSE IF Head(q) = e THEN Without(Tail(q), e)
    ELSE <<Head(q)>> \o Without(Tail(q), e)

\* An aborted task is shut down where it is suspended: its future is dropped,
\* and with it the guard or the place in a queue it holds.
TaskShutdown(t) ==
    /\ tasks[t].aborted
    /\ Suspended(t)
    /\ tasks' = [tasks EXCEPT ![t].pc = "cancelled", ![t].wake = 0,
                              ![t].next = None, ![t].delivered = <<>>]
    /\ cbReaders' = cbReaders \ {t}
    /\ cbQueue' = Without(cbQueue, [kind |-> "r", who |-> t])
    /\ IF jobsHolder = TaskW(t)
       THEN JobsRelease
       ELSE /\ jobsQueue' = Without(jobsQueue, TaskW(t))
            /\ UNCHANGED jobsHolder
    /\ UNCHANGED <<agentVars, files, now, store, jobs, callbacks, nextArc,
                   call, hist, stopped>>
    /\ NoReturn

\* ------------------------------------------------- the agent's fact memory
\* Agent::save_to_memory, lines 107-112: under the read guard of the cached
\* blob, a fact whose trimmed text the blob contains is not saved again.
SaveCheck(c, fact) ==
    /\ call[c].op = "idle"
    /\ Len(memory_file.content) < MaxLogLen
    /\ IF contains(memory_content, trim(fact))
       THEN /\ ret' = [op |-> "save", caller |-> c, ok |-> TRUE, val |-> FALSE,
                       was |-> [op |-> "save", pc |-> "check", fact |-> fact]]
            /\ UNCHANGED call
       ELSE /\ call' = [call EXCEPT ![c] =
                          [op |-> "save", pc |-> "open", fact |-> fact,
                           new_memory |-> <<>>, new_prompt |-> <<>>,
                           unlinked |-> FALSE]]
            /\ NoReturn
    /\ UNCHANGED <<agentVars, schedVars, lockVars, files>>

\* Lines 116-119: OpenOptions::new().create(true).append(true).open(path)
\* creates the file when it is absent.
SaveOpen(c) ==
    /\ call[c].op = "save" /\ call[c].pc = "open"
    /\ memory_file' = [memory_file EXCEPT !.exists = TRUE]
    /\ call' = [call EXCEPT ![c].pc = "write"]
    /\ NoReturn
    /\ UNCHANGED <<memory_content, system_prompt, saved, schedVars, lockVars, files>>

\* Line 114: format!("- {}\n", fact.trim())
fact_line(fact) == <<"-", " ">> \o trim(fact) \o <<"\n">>

\* Lines 122-126: the line is appended through the handle opened before,
\* after an empty line when the file of that path has content.  What is
\* written through the handle of a file that was removed meanwhile is not in
\* the file of that path.
SaveWrite(c) ==
    /\ call[c].op = "save" /\ call[c].pc = "write"
    /\ memory_file' =
          IF call[c].unlinked \/ ~memory_file.exists THEN memory_file
          ELSE IF Len(memory_file.content) > 0
               THEN [memory_file EXCEPT !.content =
                        @ \o <<"\n">> \o fact_line(call[c].fact)]
               ELSE [memory_file EXCEPT !.content = fact_line(call[c].fact)]
    /\ call' = [call EXCEPT ![c].pc = "load"]
    /\ NoReturn
    /\ UNCHANGED <<memory_content, system_prompt, saved, schedVars, lockVars, files>>

\* Lines 128-129: the file is read back and the prompt built from it.
SaveLoad(c) ==
    /\ call[c].op = "save" /\ call[c].pc = "load"
    /\ LET new_memory == load_memory(memory_file)
       IN  call' = [call EXCEPT ![c].pc = "publish_memory",
                     ![c].new_memory = new_memory,
                     ![c].new_prompt = build_full_prompt(BasePrompt, new_memory)]
    /\ NoReturn
    /\ UNCHANGED <<agentVars, schedVars, lockVars, files>>

\* Lines 131-133: the cached blob is replaced under its write guard.
SavePublishMemory(c) ==
    /\ call[c].op = "save" /\ call[c].pc = "publish_memory"
    /\ memory_content' = call[c].new_memory
    /\ call' = [call EXCEPT ![c].pc = "publish_prompt"]
    /\ NoReturn
    /\ UNCHANGED <<memory_file, system_prompt, saved, schedVars, lockVars, files>>

\* Lines 135-139: the cached prompt is replaced under its write guard and
\* save_to_memory returns Ok(true).
SavePublishPrompt(c) ==
    /\ call[c].op = "save" /\ call[c].pc = "publish_prompt"
    /\ system_prompt' = call[c].new_prompt
    /\ saved' = saved \cup {call[c].fact}
    /\ Return(c, "save", TRUE, TRUE)
    /\ UNCHANGED <<memory_file, memory_content, schedVars, lockVars, files>>

\* Agent::clear_memory, line 143: memory_path.exists()
ClearExists(c) ==
    /\ call[c].op = "idle"
    /\ call' = [call EXCEPT ![c] =
                  [op |-> "clear",
                   pc |-> IF memory_file.exists THEN "remove" ELSE "memory"]]
    /\ NoReturn
    /\ UNCHANGED <<agentVars, schedVars, lockVars, files>>

\* Line 144: remove_file(path)?  The handles that are open on the file stay
\* open on the removed file; the error of removing a file that is no longer
\* there is returned.
ClearRemove(c) ==
    /\ call[c].op = "clear" /\ call[c].pc = "remove"
    /\ IF memory_file.exists
       THEN /\ memory_file' = NoFile
            /\ call' = [d \in Callers |->
                          IF d = c THEN [call[c] EXCEPT !.pc = "memory"]
                          ELSE IF call[d].op = "save" /\ call[d].pc = "write"
                               THEN [call[d] EXCEPT !.unlinked = TRUE]
                               ELSE call[d]]
            /\ NoReturn
       ELSE /\ Return(c, "clear", FALSE, FALSE)
            /\ UNCHANGED memory_file
    /\ UNCHANGED <<memory_content, system_prompt, saved, schedVars, lockVars, files>>

\* Lines 147-150: the cached blob is emptied under its write guard.
ClearMemory(c) ==
    /\ call[c].op = "clear" /\ call[c].pc = "memory"
    /\ memory_content' = <<>>
    /\ call' = [call EXCEPT ![c].pc = "prompt"]
    /\ NoReturn
    /\ UNCHANGED <<memory_file, system_prompt, saved, schedVars, lockVars, files>>

\* Mutant: the cached prompt is emptied.
ClearPrompt_empty(c) ==
    /\ call[c].op = "clear" /\ call[c].pc = "prompt"
    /\ system_prompt' = <<>>
    /\ Return(c, "clear", TRUE, TRUE)
    /\ UNCHANGED <<memory_file, memory_content, saved, schedVars, lockVars, files>>

\* Lines 152-156: the cached prompt is set to the base prompt under its write
\* guard and clear_memory returns Ok(true).
ClearPrompt(c) ==
    /\ call[c].op = "clear" /\ call[c].pc = "prompt"
    /\ system_prompt' = BasePrompt
    /\ Return(c, "clear", TRUE, TRUE)
    /\ UNCHANGED <<memory_file, memory_content, saved, schedVars, lockVars, files>>

\* The program is started again on the file the earlier run left: Agent::new
\* (lines 58-73) loads the facts and builds the prompt.
AgentRestart(c) ==
    /\ \A d \in Callers : call[d].op = "idle"
    /\ memory_content' = load_memory(memory_file)
    /\ system_prompt' = build_full_prompt(BasePrompt, load_memory(memory_file))
    /\ ret' = [op |-> "new", caller |-> c, ok |-> TRUE, val |-> TRUE,
               was |-> call[c]]
    /\ UNCHANGED <<memory_file, saved, call, schedVars, lockVars, files>>

\* ------------------------------------------------------- chat and parsing
\* What the chat backend does with a request: it replies with a text, the
\* request cannot be sent, the status is not a success, or the reply cannot be
\* decoded.
BackendFailures == {"send", "status", "decode"}

\* Agent::chat_request (lines 195-208)
chat_request(backend) ==
    CASE backend.kind = "send" ->
            [ok |-> FALSE, val |-> <<>>, err |-> "error sending request"]
      [] backend.kind = "status" ->
            [ok |-> FALSE, val |-> <<>>, err |-> "Ollama returned error"]
      [] backend.kind = "decode" ->
            [ok |-> FALSE, val |-> <<>>, err |-> "error decoding response body"]
      [] backend.kind = "reply" ->
            [ok |-> TRUE, val |-> backend.content, err |-> ""]

\* Mutant: the error of the request is returned to the caller.
chat_propagates(backend) ==
    [ok |-> chat_request(backend).ok,
     val |-> IF chat_request(backend).ok THEN chat_request(backend).val
             ELSE <<chat_request(backend).err>>]

\* Agent::chat (lines 220-226): the reply, or the apology with the error.
chat(backend) ==
    [ok |-> TRUE,
     val |-> IF chat_request(backend).ok THEN chat_request(backend).val
             ELSE <<"Sorry, I had trouble thinking about that. Error: ",
                    chat_request(backend).err>>]

\* A frontend asks the agent for a response (tui/mod.rs, line 90).
Chat(c, backend) ==
    /\ call[c].op = "idle"
    /\ ret' = [op |-> "chat", caller |-> c, ok |-> chat(backend).ok,
               val |-> chat(backend).val, was |-> [backend |-> backend]]
    /\ call' = [call EXCEPT ![c] =
                  IF chat(backend).ok
                  THEN [op |-> "respond", pc |-> "parse",
                        response |-> chat(backend).val]
                  ELSE Idle]
    /\ UNCHANGED <<agentVars, schedVars, lockVars, files>>

\* The frontend takes the blocks out of the response and cleans it for
\* display (tui/mod.rs, lines 94-132).
ParseResponse(c) ==
    /\ call[c].op = "respond" /\ call[c].pc = "parse"
    /\ Return(c, "parse", TRUE,
              [cron |-> parse_cron_blocks(call[c].response),
               saves |-> parse_save_blocks(call[c].response),
               facts |-> parse_memory_blocks(call[c].response),
               clean |-> clean_response(call[c].response)])
    /\ UNCHANGED <<agentVars, schedVars, lockVars, files>>

\* ------------------------------------------------------------ specification
\* The state main() reaches before it starts the frontends (bin/rustyclaw.rs,
\* lines 75-128): a new engine on an empty store, load_jobs done, and one
\* consumer registered with set_send_callback.
InitSched ==
    /\ AgentNew(NoFile)
    /\ now = 0
    /\ store = <<>>
    /\ jobs = [i \in JobIds |-> 0]
    /\ tasks = <<>>
    /\ callbacks = <<[arc |-> 1, consumer |-> "c1"]>>
    /\ cbReaders = {}
    /\ cbQueue = <<>>
    /\ nextArc = 2
    /\ call = [c \in Callers |-> Idle]
    /\ ret = NoRet
    /\ hist = [i \in JobIds |-> NoHist]
    /\ SchedulerNew
    /\ files = <<>>

\* The frontends add, cancel and reload jobs concurrently.
NextSched ==
    \/ Tick
    \/ \E c \in Callers, s \in Schedules, t \in TaskLabels :
          AddJob(c, s, t, "m1")
    \/ \E c \in Callers : ScheduleSpawn(c)
    \/ \E c \in Callers : ScheduleInsert(c)
    \/ LoadJobsBegin("tui")
    \/ \E id \in JobIds : CancelJobBegin("telegram", id)
    \/ \E c \in Callers : CancelJobRemove(c)
    \/ \E t \in 1..Len(tasks) : TaskStart(t)
    \/ \E t \in 1..Len(tasks) : TaskWake(t)
    \/ \E t \in 1..Len(tasks) : TaskTrigger(t)
    \/ \E t \in 1..Len(tasks) : TaskCallbackDone(t)
    \/ \E t \in 1..Len(tasks) : TaskRemove(t)
    \/ \E t \in 1..Len(tasks) : TaskShutdown(t)

Spec == InitSched /\ [][NextSched]_vars

\* add_job of a recurring schedule, for at most MaxRegJobs jobs.
AddRecurringJob(c, t, m) ==
    /\ Len(store) < MaxRegJobs
    /\ AddJob(c, "every", t, m)

\* The frontends register consumers while jobs are added, fire and are
\* cancelled, on a new engine (Scheduler::new).
NextReg ==
    \/ Tick
    \/ \E t \in TaskLabels, m \in Messages : AddRecurringJob("tui", t, m)
    \/ ScheduleSpawn("tui")
    \/ ScheduleInsert("tui")
    \/ \E id \in JobIds : CancelJobBegin("telegram", id)
    \/ CancelJobRemove("telegram")
    \/ \E c \in Callers, k \in Consumers : SetSendCallbackBegin(c, k)
    \/ \E c \in Callers, k \in Consumers : AddSendCallbackBegin(c, k)
    \/ \E c \in Callers : RegisterWrite(c)
    \/ \E t \in 1..Len(tasks) : TaskStart(t)
    \/ \E t \in 1..Len(tasks) : TaskWake(t)
    \/ \E t \in 1..Len(tasks) : TaskTrigger(t)
    \/ \E t \in 1..Len(tasks) : TaskGranted(t)
    \/ \E t \in 1..Len(tasks) : TaskCallbackDone(t)
    \/ \E t \in 1..Len(tasks) : TaskShutdown(t)

SpecReg == Init /\ [][NextReg]_vars

\* Recurring jobs fire while a frontend registers consumers, some of which
\* never return.
NextHang ==
    \/ Tick
    \/ \E t \in TaskLabels : AddJob("tui", "every", t, "m1")
    \/ ScheduleSpawn("tui")
    \/ ScheduleInsert("tui")
    \/ \E k \in {"c1"} \cup Hanging : SetSendCallbackBegin("telegram", k)
    \/ \E k \in {"c1"} \cup Hanging : AddSendCallbackBegin("telegram", k)
    \/ RegisterWrite("telegram")
    \/ \E t \in 1..Len(tasks) : TaskStart(t)
    \/ \E t \in 1..Len(tasks) : TaskWake(t)
    \/ \E t \in 1..Len(tasks) : TaskTrigger(t)
    \/ \E t \in 1..Len(tasks) : TaskGranted(t)
    \/ \E t \in 1..Len(tasks) : TaskCallbackDone(t)

SpecHang == InitSched /\ [][NextHang]_vars

\* The rows a store can hold when the program starts: written by earlier
\* runs (or by hand), enabled or not, with any schedule string.
StoredRows ==
    [schedule : Schedules, task : TaskLabels, message : {"m1"},
     enabled : BOOLEAN]

\* Startup (bin/rustyclaw.rs, lines 75-78): a new engine on a store left by
\* earlier runs.
InitLoad ==
    /\ AgentNew(NoFile)
    /\ now = 0
    /\ store \in UNION {[1..n -> StoredRows] : n \in 0..MaxJobs}
    /\ jobs = [i \in JobIds |-> 0]
    /\ tasks = <<>>
    /\ callbacks = <<>>
    /\ cbReaders = {}
    /\ cbQueue = <<>>
    /\ nextArc = 1
    /\ call = [c \in Callers |-> Idle]
    /\ ret = NoRet
    /\ hist = [i \in JobIds |-> NoHist]
    /\ SchedulerNew
    /\ files = <<>>

\* main calls load_jobs once, on the new engine.
StartupLoad(c) ==
    /\ tasks = <<>>
    /\ LoadJobsBegin(c)

\* load_jobs at startup, with the timer tasks it spawns running meanwhile.
NextLoad ==
    \/ Tick
    \/ StartupLoad("tui")
    \/ ScheduleSpawn("tui")
    \/ ScheduleInsert("tui")
    \/ \E t \in 1..Len(tasks) : TaskStart(t)
    \/ \E t \in 1..Len(tasks) : TaskWake(t)
    \/ \E t \in 1..Len(tasks) : TaskTrigger(t)
    \/ \E t \in 1..Len(tasks) : TaskRemove(t)

SpecLoad == InitLoad /\ [][NextLoad]_vars

\* The frontends add, cancel, list and reload jobs on a store whose queries
\* can fail.
NextFail ==
    \/ Tick
    \/ \E t \in TaskLabels, db \in StoreOutcomes :
          AddJobIO("tui", "every", t, "m1", db)
    \/ ScheduleSpawn("tui")
    \/ ScheduleInsert("tui")
    \/ \E db \in StoreOutcomes : LoadJobsIO("tui", db)
    \/ \E id \in JobIds, db \in StoreOutcomes : CancelJobIO("telegram", id, db)
    \/ CancelJobRemove("telegram")
    \/ \E c \in Callers, db \in StoreOutcomes : ListJobs(c, db)
    \/ \E t \in 1..Len(tasks) : TaskStart(t)
    \/ \E t \in 1..Len(tasks) : TaskWake(t)
    \/ \E t \in 1..Len(tasks) : TaskTrigger(t)
    \/ \E t \in 1..Len(tasks) : TaskCallbackDone(t)
    \/ \E t \in 1..Len(tasks) : TaskShutdown(t)

SpecFail == InitSched /\ [][NextFail]_vars


\* The files the agent can find when it starts: none, an empty one, one of
\* whitespace only, or the log of an earlier run.
InitialFiles ==
    {NoFile,
     [exists |-> TRUE, content |-> <<>>],
     [exists |-> TRUE, content |-> <<"\n">>],
     [exists |-> TRUE, content |-> <<"-", " ", "b", "\n">>]}

InitMem ==
    /\ \E file \in InitialFiles : AgentNew(file)
    /\ now = 0
    /\ store = <<>>
    /\ jobs = [i \in JobIds |-> 0]
    /\ tasks = <<>>
    /\ callbacks = <<>>
    /\ cbReaders = {}
    /\ cbQueue = <<>>
    /\ nextArc = 1
    /\ call = [c \in Callers |-> Idle]
    /\ ret = NoRet
    /\ hist = [i \in JobIds |-> NoHist]
    /\ SchedulerNew
    /\ files = <<>>

\* A frontend saves a fact when no other save is in progress.
SaveToMemory(c, fact) ==
    /\ \A d \in Callers : call[d].op = "idle"
    /\ SaveCheck(c, fact)

\* The frontends save facts, one call after the other.
NextMem ==
    \/ \E c \in Callers, fact \in Facts : SaveToMemory(c, fact)
    \/ \E c \in Callers : SaveOpen(c)
    \/ \E c \in Callers : SaveWrite(c)
    \/ \E c \in Callers : SaveLoad(c)
    \/ \E c \in Callers : SavePublishMemory(c)
    \/ \E c \in Callers : SavePublishPrompt(c)

SpecMem == InitMem /\ [][NextMem]_vars

\* A frontend clears the memory when no other call is in progress.
ClearMemoryCall(c) ==
    /\ \A d \in Callers : call[d].op = "idle"
    /\ ClearExists(c)

\* The frontends save facts and clear the memory, one call after the other,
\* and the program is restarted between calls.
NextClear ==
    \/ \E c \in Callers, fact \in Facts : SaveToMemory(c, fact)
    \/ \E c \in Callers : SaveOpen(c)
    \/ \E c \in Callers : SaveWrite(c)
    \/ \E c \in Callers : SaveLoad(c)
    \/ \E c \in Callers : SavePublishMemory(c)
    \/ \E c \in Callers : SavePublishPrompt(c)
    \/ \E c \in Callers : ClearMemoryCall(c)
    \/ \E c \in Callers : ClearRemove(c)
    \/ \E c \in Callers : ClearMemory(c)
    \/ \E c \in Callers : ClearPrompt(c)
    \/ AgentRestart("tui")

SpecClear == InitMem /\ [][NextClear]_vars

\* The facts the two frontends save at the same time.
RaceFacts == {<<"a">>, <<"b">>}

\* Both frontends run (Mode::Both, bin/rustyclaw.rs lines 103-147) on the one
\* agent they share: their save_to_memory and clear_memory calls interleave.
NextRace ==
    \/ \E c \in Callers, fact \in RaceFacts : SaveCheck(c, fact)
    \/ \E c \in Callers : SaveOpen(c)
    \/ \E c \in Callers : SaveWrite(c)
    \/ \E c \in Callers : SaveLoad(c)
    \/ \E c \in Callers : SavePublishMemory(c)
    \/ \E c \in Callers : SavePublishPrompt(c)
    \/ \E c \in Callers : ClearExists(c)
    \/ \E c \in Callers : ClearRemove(c)
    \/ \E c \in Callers : ClearMemory(c)
    \/ \E c \in Callers : ClearPrompt(c)

SpecRace == InitMem /\ [][NextRace]_vars

\* The tokens of the short responses.
ParseTokens == {Fence, "cron", "memory", "save:", " ", "\n", "x"}

\* All responses of at most MaxTextLen tokens.
ShortTexts == UNION {[1..n -> ParseTokens] : n \in 0..MaxTextLen}

\* A JSON object of the members ms, with sep before each member and before
\* the closing brace: on one line, or one member per line.
RECURSIVE Members(_, _)
Members(ms, sep) ==
    IF ms = <<>> THEN <<>>
    ELSE sep \o <<Head(ms)>> \o Members(Tail(ms), sep)

Object(ms, sep) == <<"{">> \o Members(ms, sep) \o sep \o <<"}">>

\* The bodies of the schedule blocks: objects of at most MaxMembers members,
\* a JSON number, and texts that are no JSON.
Bodies ==
    {Object(ms, sep) :
        ms \in UNION {[1..n -> MemberTokens] : n \in 0..MaxMembers},
        sep \in {<<>>, <<" ">>, <<"\n">>}}
    \cup {<<"n">>, <<"x">>, <<"{">>}

\* Responses with one schedule block, with or without prose around it.
CronTexts ==
    {pre \o <<Fence, "cron">> \o open \o body \o close \o post :
        pre \in {<<>>, <<"x", "\n">>},
        open \in {<<"\n">>, <<" ", "\n">>},
        body \in Bodies,
        close \in {<<"\n", Fence>>, <<"\n", " ", Fence>>},
        post \in {<<>>, <<"\n", "x">>}}

\* Schedule blocks of a response with several blocks: well-formed ones on one
\* line and on several lines, one that lacks a key, one with a schedule of 4
\* fields, and one whose body is no JSON.
SomeBlocks ==
    {<<Fence, "cron", "\n">> \o body \o <<"\n", Fence>> :
        body \in {Object(<<"S5", "T", "M">>, <<>>),
                  Object(<<"S5", "T", "M2">>, <<>>),
                  Object(<<"S5", "T", "M">>, <<"\n">>),
                  Object(<<"S5", "T">>, <<>>),
                  Object(<<"S4", "T", "M">>, <<>>),
                  <<"x">>}}

\* The blocks one after the other, each followed by gap.
RECURSIVE Concat(_, _)
Concat(blocks, gap) ==
    IF blocks = <<>> THEN <<>>
    ELSE Head(blocks) \o gap \o Concat(Tail(blocks), gap)

\* Responses with at most MaxBlocks schedule blocks, on lines that follow one
\* another or with prose between them.
BlockTexts ==
    {Concat(blocks, gap) :
        blocks \in UNION {[1..n -> SomeBlocks] : n \in 1..MaxBlocks},
        gap \in {<<"\n">>, <<"\n", "x", "\n">>}}

\* What the backend can do with a request.
Backends ==
    {[kind |-> k, content |-> <<>>] : k \in BackendFailures}
    \cup {[kind |-> "reply", content |-> text] :
             text \in ShortTexts \cup CronTexts \cup BlockTexts}

\* The first request of a frontend after the start.
FirstChat(c) ==
    /\ ret = NoRet
    /\ \E backend \in Backends : Chat(c, backend)

\* A frontend gets a response from the agent and parses it.
NextParse ==
    \/ FirstChat("tui")
    \/ ParseResponse("tui")

SpecParse == Init /\ [][NextParse]_vars

\* ------------------------------------------------- the two locks, explicit
\* The threads that can be at jobs.write().await.
JobsThreads == {CallerW(c) : c \in Callers} \cup {TaskW(t) : t \in 1..MaxTasks}

\* add_job of a valid schedule, for at most MaxRegJobs jobs.
AddFewJobs(c, s) ==
    /\ Len(store) < MaxRegJobs
    /\ AddJob(c, s, "t1", "m1")

\* The frontends add, cancel and reload jobs and register consumers while the
\* timer tasks run; a thread can be pre-empted while it holds the write guard
\* of the map of live timers, and the others then queue for it.
NextLock ==
    \/ Tick
    \/ \E s \in {"every", "once"} : AddFewJobs("tui", s)
    \/ \E c \in Callers : ScheduleSpawn(c)
    \/ \E c \in Callers : ScheduleInsert(c)
    \/ LoadJobsBegin("telegram")
    \/ \E id \in JobIds : CancelJobBegin("telegram", id)
    \/ CancelJobRemove("telegram")
    \/ SetSendCallbackBegin("telegram", "c2")
    \/ AddSendCallbackBegin("telegram", "c2")
    \/ RegisterWrite("telegram")
    \/ \E w \in JobsThreads : JobsAcquire(w)
    \/ \E w \in JobsThreads : JobsWait(w)
    \/ \E t \in 1..Len(tasks) : TaskStart(t)
    \/ \E t \in 1..Len(tasks) : TaskWake(t)
    \/ \E t \in 1..Len(tasks) : TaskTrigger(t)
    \/ \E t \in 1..Len(tasks) : TaskGranted(t)
    \/ \E t \in 1..Len(tasks) : TaskCallbackDone(t)
    \/ \E t \in 1..Len(tasks) : TaskRemove(t)
    \/ \E t \in 1..Len(tasks) : TaskShutdown(t)

SpecLock == InitSched /\ [][NextLock]_vars

\* ------------------------------------------------------- fair scheduling
\* What the runtime guarantees: time passes, a task or an operation that can
\* go on is polled, a lock that can be granted is granted, and a callback
\* returns.  That a frontend starts an operation is not guaranteed.
Fairness ==
    /\ WF_vars(Tick)
    /\ WF_vars(ScheduleSpawn("tui"))
    /\ WF_vars(ScheduleInsert("tui"))
    /\ WF_vars(CancelJobRemove("telegram"))
    /\ WF_vars(RegisterWrite("telegram"))
    /\ \A t \in 1..MaxTasks :
          /\ WF_vars(t <= Len(tasks) /\ TaskStart(t))
          /\ WF_vars(t <= Len(tasks) /\ TaskWake(t))
          /\ WF_vars(t <= Len(tasks) /\ TaskTrigger(t))
          /\ WF_vars(t <= Len(tasks) /\ TaskGranted(t))
          /\ WF_vars(t <= Len(tasks) /\ TaskCallbackDone(t))
          /\ WF_vars(t <= Len(tasks) /\ TaskRemove(t))
          /\ WF_vars(t <= Len(tasks) /\ TaskShutdown(t))

\* One frontend adds a job, the other cancels jobs and registers consumers,
\* while the timer task runs.
NextLive ==
    \/ Tick
    \/ \E s \in {"every", "once"} : AddFewJobs("tui", s)
    \/ ScheduleSpawn("tui")
    \/ ScheduleInsert("tui")
    \/ \E id \in JobIds : CancelJobBegin("telegram", id)
    \/ CancelJobRemove("telegram")
    \/ SetSendCallbackBegin("telegram", "c2")
    \/ AddSendCallbackBegin("telegram", "c2")
    \/ RegisterWrite("telegram")
    \/ \E t \in 1..Len(tasks) : TaskStart(t)
    \/ \E t \in 1..Len(tasks) : TaskWake(t)
    \/ \E t \in 1..Len(tasks) : TaskTrigger(t)
    \/ \E t \in 1..Len(tasks) : TaskGranted(t)
    \/ \E t \in 1..Len(tasks) : TaskCallbackDone(t)
    \/ \E t \in 1..Len(tasks) : TaskRemove(t)
    \/ \E t \in 1..Len(tasks) : TaskShutdown(t)

SpecLive == InitSched /\ [][NextLive]_vars /\ Fairness

\* -------------------------------------------------------------- shutdown
\* add_job of a valid schedule, called before stop() has returned.
AddBeforeStop(c, s) ==
    /\ ~stopped
    /\ AddJob(c, s, "t1", "m1")

\* cancel_job, called before stop() has returned.
CancelBeforeStop(c, id) ==
    /\ ~stopped
    /\ CancelJobBegin(c, id)

\* The frontends add and cancel jobs while the timer tasks run, and main
\* calls stop(); no operation is started once stop() has returned, the
\* operations then in progress and the timer tasks go on.
NextStop ==
    \/ Tick
    \/ \E s \in {"every", "once"} : AddBeforeStop("tui", s)
    \/ ScheduleSpawn("tui")
    \/ ScheduleInsert("tui")
    \/ \E id \in JobIds : CancelBeforeStop("telegram", id)
    \/ CancelJobRemove("telegram")
    \/ \E w \in JobsThreads : JobsAcquire(w)
    \/ \E w \in JobsThreads : JobsWait(w)
    \/ Stop
    \/ \E t \in 1..Len(tasks) : TaskStart(t)
    \/ \E t \in 1..Len(tasks) : TaskWake(t)
    \/ \E t \in 1..Len(tasks) : TaskTrigger(t)
    \/ \E t \in 1..Len(tasks) : TaskCallbackDone(t)
    \/ \E t \in 1..Len(tasks) : TaskRemove(t)
    \/ \E t \in 1..Len(tasks) : TaskShutdown(t)

SpecStop == InitSched /\ [][NextStop]_vars

\* ------------------------------------------------------------ the workspace
\* A path is a sequence of characters; the names given to save_file are the
\* file names of save blocks.
SaveNames ==
    {<<"a", ".", "md">>, <<"a">>, <<"a", "_", "1", ".", "md">>,
     <<"d", "/", "a", ".", "md">>, <<"..">>}

\* The last position of character ch in path p, 0 if there is none.
LastIndex(p, ch) ==
    LET at == {i \in 1..Len(p) : p[i] = ch}
    IN  IF at = {} THEN 0 ELSE CHOOSE i \in at : \A j \in at : j <= i

\* Path::file_name: the last component, none (the empty sequence) for a path
\* that ends in "..".
file_name(p) ==
    LET last == SubSeq(p, LastIndex(p, "/") + 1, Len(p))
    IN  IF last = <<"..">> THEN <<>> ELSE last

\* Path::file_stem: the file name up to its last dot; the whole name if it has
\* no dot or only a leading one.
file_stem(p) ==
    LET name == file_name(p)
        dot == LastIndex(name, ".")
    IN  IF dot <= 1 THEN name ELSE SubSeq(name, 1, dot - 1)

\* Path::extension: the file name after its last dot; none if it has no dot
\* or only a leading one.
extension(p) ==
    LET name == file_name(p)
        dot == LastIndex(name, ".")
    IN  IF dot <= 1 THEN <<>> ELSE SubSeq(name, dot + 1, Len(name))

\* Option::unwrap_or, where the empty sequence stands for None.
unwrap_or(opt, default) == IF opt = <<>> THEN default ELSE opt

\* format!("{}_{}.{}", stem, counter, suffix), line 46; the counter is
\* written in decimal digits.
numbered(stem, counter, suffix) ==
    LET digits == <<"1", "2", "3", "4", "5", "6", "7", "8", "9">>
    IN  stem \o <<"_", digits[counter], ".">> \o suffix

\* Path::exists in the workspace directory.
exists(name) == name \in DOMAIN files

\* std::fs::write: the file is created, or truncated if it is there.
fs_write(name, content) ==
    [n \in DOMAIN files \cup {name} |->
        IF n = name THEN content ELSE files[n]]

\* Workspace::save_file, lines 27-35: the directory part of the name is cut
\* off, and the first exists() decides whether a numbered name is needed.
SaveFileBegin(c, filename, content) ==
    /\ call[c].op = "idle"
    /\ Cardinality(DOMAIN files) < MaxFiles
    /\ LET safe_name == unwrap_or(file_name(filename),
                                   <<"untitled", ".", "txt">>)
           taken == exists(safe_name)
       IN  call' = [call EXCEPT ![c] =
             [op |-> "save_file", pc |-> IF taken THEN "loop" ELSE "write",
              filename |-> filename, content |-> content,
              safe_name |-> safe_name,
              stem |-> unwrap_or(file_stem(safe_name), <<"untitled">>),
              suffix |-> unwrap_or(extension(safe_name), <<"txt">>),
              counter |-> 1,
              final_path |-> IF taken THEN <<>> ELSE safe_name]]
    /\ UNCHANGED <<agentVars, schedVars, lockVars, files>>
    /\ NoReturn

\* Lines 44-50: one turn of the loop, which ends at the first numbered name
\* that does not exist.
SaveFileLoop(c) ==
    /\ call[c].op = "save_file"
    /\ call[c].pc = "loop"
    /\ LET new_path == numbered(call[c].stem, call[c].counter, call[c].suffix)
       IN  call' = IF ~exists(new_path)
                   THEN [call EXCEPT ![c].pc = "write",
                                     ![c].final_path = new_path]
                   ELSE [call EXCEPT ![c].counter = @ + 1]
    /\ UNCHANGED <<agentVars, schedVars, lockVars, files>>
    /\ NoReturn

\* Lines 55-65: the content is written to the chosen path, which is returned.
SaveFileWrite(c) ==
    /\ call[c].op = "save_file"
    /\ call[c].pc = "write"
    /\ files' = fs_write(call[c].final_path, call[c].content)
    /\ Return(c, "save_file", TRUE, call[c].final_path)
    /\ UNCHANGED <<agentVars, schedVars, lockVars>>

\* Both frontends save the files of the save blocks they parse, in the one
\* workspace they share.
NextSave ==
    \/ \E c \in Callers, f \in SaveNames, x \in {"x", "y"} :
          SaveFileBegin(c, f, x)
    \/ \E c \in Callers : SaveFileLoop(c)
    \/ \E c \in Callers : SaveFileWrite(c)

SpecSave == Init /\ [][NextSave]_vars

\* ================================================================== claims
Tasks == 1..Len(tasks)

\* A timer task that is running and has not been aborted.
Running(t) == ~Ended(t) /\ ~tasks[t].aborted

NoCallInProgress == \A c \in Callers : call[c] = Idle

\* A schedule that add_job has to refuse.
InvalidSchedule(s) == FieldCount(s) # 5 \/ ~CronAccepts(s)

\* C1: add_job with a schedule that has not exactly 5 fields or that the cron
\* evaluator rejects returns an error and changes nothing: no row is added to
\* the store, no task is spawned and no timer is inserted in the map.
C1_InvalidAddChangesNothing ==
    /\ [](\A c \in Callers :
            call[c].op = "add" => ~InvalidSchedule(call[c].schedule))
    /\ [][(ret'.op = "add" /\ InvalidSchedule(ret'.was.schedule))
            => (~ret'.ok /\ UNCHANGED <<store, jobs, tasks, call>>)]_vars

\* add_job has just refused an invalid schedule, with a job in the store and
\* a timer in the map.
C1_Witness ==
    /\ ret.op = "add" /\ ~ret.ok
    /\ InvalidSchedule(ret.was.schedule)
    /\ Len(store) > 0
    /\ \E id \in JobIds : jobs[id] # 0

\* C2: when add_job returns Ok(id), the store holds an enabled job with that
\* id carrying the given schedule, task and message, every timer in the map
\* has its row in the store (the row was written first), and the map holds a
\* timer of job id.
C2_AddJobOk ==
    /\ \A id \in JobIds : jobs[id] # 0 => id \in 1..Len(store)
    /\ (ret.op = "add" /\ ret.ok) =>
          /\ ret.val \in 1..Len(store)
          /\ store[ret.val] = [schedule |-> ret.was.schedule,
                               task |-> ret.was.task,
                               message |-> ret.was.message, enabled |-> TRUE]
          /\ jobs[ret.val] \in Tasks
          /\ tasks[jobs[ret.val]].job_id = ret.val

\* C3: a job whose cancel_job, called after its add_job returned, returns
\* before the job's first fire time never has a callback invoked.
C3_CancelBeforeFirstFire ==
    \A id \in JobIds : hist[id].early => ~hist[id].fired

\* A step in which task t calls a callback.
Invokes(t) ==
    /\ t \in Tasks
    /\ tasks'[t].pc = "in_callback"
    /\ tasks[t].pc # "in_callback" \/ tasks'[t].idx # tasks[t].idx

\* C4: cancel_job removes the job's id from the map and aborts its timer in
\* whatever phase it is: once cancel_job has returned, the aborted task
\* starts no callback invocation and never re-arms, and Cancelled and
\* Exhausted are terminal.
C4_NoInvocationAfterCancel ==
    /\ []((ret.op = "cancel" /\ ret.val = 1) => jobs[ret.was.job_id] = 0)
    /\ [][\A t \in Tasks :
            /\ Ended(t) => tasks'[t] = tasks[t]
            /\ tasks[t].aborted =>
                  ~Invokes(t) /\ tasks'[t].pc \in {tasks[t].pc, "cancelled"}]_vars

\* A step in which cancel_job removes and aborts the handle of the job.
CancelAborts(c, h) ==
    /\ call[c].pc = "cancel_lock"
    /\ call'[c] = Idle
    /\ h = jobs[call[c].job_id]
    /\ h # 0

\* C4, amended: when cancel_job returns, the job's id is not in the map and
\* the task of the handle it held is aborted (unless it had ended).  An aborted task that is
\* suspended (not yet started, in its sleep, in the lock queue or inside a
\* callback) is shut down there: it never wakes, never calls another callback
\* and never re-arms.  An aborted task stays aborted, and Cancelled and
\* Exhausted are terminal.  (A task that is running when it is aborted goes on
\* to its next suspension.)
C4_AbortedTaskStopsWhenSuspended ==
    /\ []((ret.op = "cancel" /\ ret.val = 1) => jobs[ret.was.job_id] = 0)
    /\ [][/\ \A c \in Callers, h \in Tasks :
               CancelAborts(c, h) => (Ended(h) \/ tasks'[h].aborted)
          /\ \A t \in Tasks :
               /\ Ended(t) => tasks'[t] = tasks[t]
               /\ tasks[t].aborted => tasks'[t].aborted
               /\ (tasks[t].aborted /\ Suspended(t)) =>
                     /\ ~Invokes(t)
                     /\ tasks'[t].pc \in {tasks[t].pc, "cancelled"}]_vars

\* A task cancelled while it was waiting for a callback to complete, its id
\* gone from the map.
C4_Witness ==
    \E t \in Tasks :
        /\ tasks[t].pc = "cancelled"
        /\ tasks[t].idx >= 1
        /\ jobs[tasks[t].job_id] = 0

\* C5: a cancel_job of a job whose earlier cancel_job has returned reports
\* "not found / already disabled": it returns Ok(false).
C5_SecondCancelReturnsFalse ==
    (ret.op = "cancel" /\ ret.was.again) => (ret.ok /\ ret.val = 0)

\* C6: when no add_job, cancel_job or load_jobs is in progress, no job that
\* is disabled in the store has a map entry or a running timer task.
C6_DisabledJobHasNoTimer ==
    NoCallInProgress =>
        \A id \in 1..Len(store) : ~store[id].enabled =>
            /\ jobs[id] = 0
            /\ \A t \in Tasks : tasks[t].job_id = id => ~Running(t)

\* C7: when no add_job, cancel_job or load_jobs is in progress, every running
\* timer task is the one whose handle the map holds for its job id (so there
\* is at most one per job id, and it can be cancelled).
C7_OneTimerPerJob ==
    NoCallInProgress =>
        \A t \in Tasks : Running(t) => jobs[tasks[t].job_id] = t


\* What a fire event of task t delivers: every consumer of the registry, in
\* the order of the registry, with the message of the task's job.
Expected(t) ==
    [i \in 1..Len(callbacks) |->
        [consumer |-> callbacks[i].consumer,
         message |-> store[tasks[t].job_id].message]]

\* The registry lists the consumers in the order of their registration.
RegistrationOrder ==
    \A i, j \in 1..Len(callbacks) : i < j => callbacks[i].arc < callbacks[j].arc

\* During a fan-out the consumers invoked so far are the first ones of the
\* registry, each once, in order.
FanOutInOrder ==
    \A t \in Tasks : tasks[t].pc = "in_callback" =>
        /\ t \in cbReaders
        /\ tasks[t].idx \in 1..Len(callbacks)
        /\ tasks[t].delivered = SubSeq(Expected(t), 1, tasks[t].idx)

\* C8: every fire event invokes every registered consumer (both of two
\* consumers registered additively) with the job's message, each exactly once,
\* in registration order, and the fan-out finishes before the job computes
\* its next fire time.
C8_EveryFireReachesAll ==
    /\ [](RegistrationOrder /\ FanOutInOrder)
    /\ [][\A t \in Tasks :
            (tasks[t].pc = "in_callback" /\ tasks'[t].pc # "in_callback")
               => tasks[t].delivered = Expected(t)]_vars

\* C8, amended: every fire event whose task is not aborted during the fan-out
\* invokes every registered consumer with the job's message, each exactly
\* once, in registration order, before the job computes its next fire time; a
\* fan-out cut short by an abort has invoked the first consumers only.
C8_UnabortedFireReachesAll ==
    /\ [](RegistrationOrder /\ FanOutInOrder)
    /\ [][\A t \in Tasks :
            (tasks[t].pc = "in_callback"
                /\ tasks'[t].pc \notin {"in_callback", "cancelled"})
               => tasks[t].delivered = Expected(t)]_vars

\* A fire event has reached the second of two different consumers.
C8_Witness ==
    \E t \in Tasks :
        /\ tasks[t].pc = "in_callback"
        /\ tasks[t].idx = 2
        /\ Len(callbacks) = 2
        /\ callbacks[1].consumer # callbacks[2].consumer

\* C9: additive registration deduplicates: the registry never holds the same
\* consumer twice, so a consumer registered twice receives each fired message
\* once.
C9_NoDuplicateConsumer ==
    /\ \A i, j \in 1..Len(callbacks) :
           i # j => callbacks[i].consumer # callbacks[j].consumer
    /\ \A t \in Tasks : \A i, j \in 1..Len(tasks[t].delivered) :
           i # j => tasks[t].delivered[i].consumer # tasks[t].delivered[j].consumer

\* C10: when set_send_callback returns, the registry holds exactly the given
\* consumer and no fire event is still running on the old registry; a fire
\* event only invokes consumers the registry holds.
C10_SetReplacesRegistry ==
    /\ ret.op = "set" =>
          /\ callbacks = <<[arc |-> ret.was.arc, consumer |-> ret.was.consumer]>>
          /\ cbReaders = {}
    /\ \A t \in Tasks : \A i \in 1..Len(tasks[t].delivered) :
          \E j \in 1..Len(callbacks) :
              callbacks[j].consumer = tasks[t].delivered[i].consumer

\* A fire event invokes the one consumer of a registry that a
\* set_send_callback has put in the place of an earlier one.
C10_Witness ==
    \E t \in Tasks :
        /\ tasks[t].pc = "in_callback"
        /\ Len(callbacks) = 1
        /\ callbacks[1].arc > 1

\* A step in which task t gets the read guard of the registry: at once when
\* nobody waits for the lock, or as the first waiter of the queue.
GetsGuard(t) ==
    /\ t \in Tasks
    /\ \/ tasks[t].pc = "trigger" /\ cbQueue = <<>>
       \/ /\ tasks[t].pc = "lock_wait"
          /\ cbQueue # <<>>
          /\ Head(cbQueue) = [kind |-> "r", who |-> t]
    /\ tasks'[t].pc \notin {tasks[t].pc, "lock_wait", "cancelled"}

\* C11: a fire event that finds the registry empty invokes no callback and is
\* not an error: the task does not end, it computes its next fire time (it
\* sleeps until then, or goes on at once when less than a second is left) and
\* the live-timer map is left as it is.
C11_EmptyRegistryFireIsNoOp ==
    [][\A t \in Tasks : (GetsGuard(t) /\ callbacks = <<>>) =>
          /\ ~Invokes(t)
          /\ tasks'[t].delivered = <<>>
          /\ hist' = hist
          /\ t \notin cbReaders'
          /\ Upcoming(tasks[t].schedule, now) # None
          /\ tasks'[t].pc \in {"sleep", "trigger"}
          /\ tasks'[t].pc = "sleep" =>
                /\ tasks'[t].wake > now
                /\ tasks'[t].wake <= Upcoming(tasks[t].schedule, now)
          /\ jobs' = jobs]_vars

\* A job sleeps until its second occurrence, after its first occurrence found
\* the registry empty: no callback was invoked and the map still holds it.
C11_Witness ==
    \E t \in Tasks :
        /\ tasks[t].pc = "sleep"
        /\ tasks[t].wake = 2 * TicksPerSec
        /\ callbacks = <<>>
        /\ ~hist[tasks[t].job_id].fired
        /\ jobs[tasks[t].job_id] = t

\* A writer waits for the registry lock ahead of the reader of task t.
WriterAhead(t) ==
    \E i, j \in 1..Len(cbQueue) :
        /\ i < j
        /\ cbQueue[i].kind = "w"
        /\ cbQueue[j] = [kind |-> "r", who |-> t]

\* Task t is inside a callback that never returns.
Hung(t) ==
    /\ tasks[t].pc = "in_callback"
    /\ callbacks[tasks[t].idx].consumer \in Hanging

\* C12: a callback that never returns stalls only its own job: a task whose
\* fire time has arrived never waits for the registry behind a registration
\* that itself waits for the hung fan-out of another job to end (such a task
\* has no step until the hung callback returns).
C12_HungCallbackStallsOnlyItsJob ==
    \A a, b \in Tasks :
        (Hung(a) /\ tasks[a].job_id # tasks[b].job_id)
            => ~(/\ tasks[b].pc = "lock_wait"
                 /\ now >= FirstFire(tasks[b].job_id)
                 /\ WriterAhead(b))

\* The enabled rows of the store.
EnabledIds == {id \in 1..Len(store) : store[id].enabled}

\* The timer tasks spawned for job id.
TasksOf(id) == {t \in Tasks : tasks[t].job_id = id}

\* The task has left its loop for want of a further fire time.
Exhausted(t) == tasks[t].pc \in {"remove", "finished"}

\* C13: load_jobs returns Ok whatever the schedules of the enabled jobs; when
\* it returns, no timer was spawned or inserted for an enabled job whose
\* schedule the cron evaluator rejects, and every other enabled job has a
\* timer task, whose handle the map holds unless the schedule is exhausted.
C13_LoadSkipsRejectedSchedules ==
    ret.op = "load" =>
        /\ ret.ok
        /\ \A id \in EnabledIds :
              IF CronAccepts(store[id].schedule)
              THEN /\ TasksOf(id) # {}
                   /\ \A t \in TasksOf(id) : jobs[id] = t \/ Exhausted(t)
              ELSE TasksOf(id) = {} /\ jobs[id] = 0

\* load_jobs has returned on a store with an enabled job the evaluator
\* rejects and an enabled job it accepts, which is armed.
C13_Witness ==
    /\ ret.op = "load" /\ ret.ok
    /\ \E i, j \in EnabledIds :
          /\ ~CronAccepts(store[i].schedule)
          /\ CronAccepts(store[j].schedule)
          /\ jobs[j] \in Tasks
          /\ Running(jobs[j])

\* Job id is enabled in the store, its schedule parses and has a fire time
\* after now.
Armable(id) ==
    /\ id \in EnabledIds
    /\ CronAccepts(store[id].schedule)
    /\ Upcoming(store[id].schedule, now) # None

\* C14: when load_jobs returns on an engine whose map was empty, every id of
\* the map is a job that is enabled in the store and whose schedule parses
\* (a disabled job is never armed), every such job that has a future fire
\* time has a running timer in the map, and the map holds no timer whose
\* schedule was found exhausted.
C14_LoadArmsExactlyTheEnabled ==
    ret.op = "load" =>
        /\ \A id \in JobIds : jobs[id] # 0 =>
              /\ id \in EnabledIds
              /\ CronAccepts(store[id].schedule)
              /\ jobs[id] \in TasksOf(id)
              /\ tasks[jobs[id]].pc # "finished"
        /\ \A id \in JobIds : Armable(id) =>
              /\ jobs[id] \in TasksOf(id)
              /\ Running(jobs[id])

\* C15: once the loop of a timer task has exited for want of a further fire
\* time and the task has removed its id from the map, the map does not hold
\* the handle of that task, however the removal and the insertion of the
\* handle by schedule_job interleave.
C15_ExhaustedJobLeavesMap ==
    \A t \in Tasks : tasks[t].pc = "finished" => jobs[tasks[t].job_id] # t

\* The ids of a list of jobs.
Listed(l) == {l[i] : i \in 1..Len(l)}

\* A step in which task t leaves its loop or, having left it, removes its id
\* from the map and ends.
Exhausts(t) ==
    /\ t \in Tasks
    /\ tasks'[t].pc # tasks[t].pc
    /\ tasks'[t].pc \in {"remove", "finished"}

\* C16: the steps by which a job is exhausted leave the store as it is, so
\* the job's row keeps its enabled flag and list_jobs returns what it
\* returned before: a job that is enabled when its schedule is exhausted is
\* still listed afterwards.
C16_ExhaustionLeavesStore ==
    [][\A t \in Tasks : Exhausts(t) =>
          /\ store' = store
          /\ list_jobs' = list_jobs
          /\ store[tasks[t].job_id].enabled =>
                tasks[t].job_id \in Listed(list_jobs')]_vars

\* An exhausted job without a timer in the map that is enabled in the store
\* and listed by list_jobs.
C16_Witness ==
    \E t \in Tasks :
        /\ tasks[t].pc = "finished"
        /\ jobs[tasks[t].job_id] = 0
        /\ store[tasks[t].job_id].enabled
        /\ tasks[t].job_id \in Listed(list_jobs)

\* C17: a callback is only invoked once the fire time its task computed has
\* elapsed, a task never sleeps beyond that fire time, and every invocation
\* receives the message of the task's job.
C17_FiresAtFireTime ==
    \A t \in Tasks :
        /\ tasks[t].pc = "sleep" => tasks[t].wake <= tasks[t].next
        /\ tasks[t].pc = "in_callback" =>
              /\ now >= tasks[t].next
              /\ \A i \in 1..Len(tasks[t].delivered) :
                    tasks[t].delivered[i].message
                        = store[tasks[t].job_id].message

\* The step returns the failure of a store query to the caller.
StoreFailed(r) == r.op # "none" /\ r.was.pc = "store"

\* C18: an add_job, cancel_job, list_jobs or load_jobs whose store query
\* fails returns a failure to its caller and leaves the live-timer map and the
\* timer tasks as they were: no timer is armed, none is removed or aborted.
C18_StoreFailureIsReturned ==
    [][StoreFailed(ret') =>
          /\ ret'.op \in {"add", "cancel", "list", "load"}
          /\ ~ret'.ok
          /\ jobs' = jobs
          /\ tasks' = tasks
          /\ call' = call]_vars

\* A cancel_job has failed at the store while the job has a running timer in
\* the map.
C18_Witness ==
    /\ StoreFailed(ret)
    /\ ret.op = "cancel"
    /\ jobs[ret.was.job_id] \in Tasks
    /\ Running(jobs[ret.was.job_id])

\* Row id of the store is kept by the step, the same or disabled.
RowKept(id) ==
    /\ id \in 1..Len(store')
    /\ store'[id].schedule = store[id].schedule
    /\ store'[id].task = store[id].task
    /\ store'[id].message = store[id].message
    /\ store'[id].enabled => store[id].enabled

\* C19: the engine only soft-deletes.  No step removes or rewrites a row of
\* the store or re-enables a disabled job; list_jobs returns exactly the
\* enabled rows; a job only enters the list by the add_job that writes its
\* row and only leaves it by a cancel_job of its id.
C19_SoftDeleteOnly ==
    /\ [](Listed(list_jobs) = EnabledIds /\ Len(list_jobs) = Cardinality(EnabledIds))
    /\ [][/\ \A id \in 1..Len(store) : RowKept(id)
          /\ \A id \in Listed(list_jobs') \ Listed(list_jobs) :
                /\ id = Len(store) + 1
                /\ \E c \in Callers :
                      /\ call[c].op = "idle"
                      /\ call'[c].op = "add"
                      /\ call'[c].job_id = id
          /\ \A id \in Listed(list_jobs) \ Listed(list_jobs') :
                \E c \in Callers :
                    /\ call[c].op = "idle"
                    /\ call'[c].op = "cancel"
                    /\ call'[c].job_id = id]_vars

\* With no call in progress the store holds a cancelled job, still there and
\* disabled, and a job that was added and not cancelled, the only one listed.
C19_Witness ==
    /\ NoCallInProgress
    /\ Len(store) = 2
    /\ ~store[1].enabled
    /\ list_jobs = <<2>>
    /\ \E t \in Tasks : tasks[t].job_id = 1 /\ tasks[t].pc = "cancelled"

Max(S) == CHOOSE x \in S : \A y \in S : x >= y

\* The text of a fact without the whitespace around it.
Core(f) ==
    LET inked == {i \in 1..Len(f) : f[i] \notin {" ", "\n"}}
    IN  IF inked = {} THEN <<>> ELSE SubSeq(f, Min(inked), Max(inked))

\* C20: once save_to_memory has returned true for a fact, a following
\* save_to_memory of the same fact, with or without whitespace around it,
\* returns false, and a save that returns false leaves the file, the cached
\* blob and the cached prompt as they were.
C20_RepeatedSaveReturnsFalse ==
    [][ret'.op = "save" =>
          /\ ret'.ok
          /\ (\E g \in saved : Core(g) = Core(ret'.was.fact)) => ~ret'.val
          /\ ~ret'.val =>
                /\ memory_file' = memory_file
                /\ memory_content' = memory_content
                /\ system_prompt' = system_prompt]_vars

\* A fact has been saved (true) and the save of the same fact with
\* whitespace around it has just returned false.
C20_Witness ==
    /\ ret.op = "save" /\ ~ret.val
    /\ ret.was.fact # Core(ret.was.fact)
    /\ Core(ret.was.fact) \in saved

\* The text n occurs in the text h, at any place.
OccursIn(n, h) ==
    \E i \in 1..(Len(h) + 1) :
        \A k \in 1..Len(n) : i + k - 1 <= Len(h) /\ h[i + k - 1] = n[k]

\* The line a saved fact makes in the log.
LineOf(f) == <<"-", " ">> \o Core(f) \o <<"\n">>

\* C21: save_to_memory rejects a fact exactly when its trimmed text occurs
\* anywhere in the cached blob, as a whole line or not; a rejected save returns
\* false and leaves the file, the cached blob and the cached prompt as they
\* were, and an accepted save returns true with the line of the fact in the
\* file, in the cached blob and in the cached prompt.
C21_SaveRejectsExactlySubstrings ==
    [][\A c \in Callers :
         /\ (ret'.op = "save" /\ ret'.caller = c /\ ret'.was.pc = "check") =>
                /\ OccursIn(Core(ret'.was.fact), memory_content)
                /\ ret'.ok /\ ~ret'.val
                /\ memory_file' = memory_file
                /\ memory_content' = memory_content
                /\ system_prompt' = system_prompt
         /\ (call[c].op = "idle" /\ call'[c].op = "save") =>
                ~OccursIn(Core(call'[c].fact), memory_content)
         /\ (ret'.op = "save" /\ ret'.caller = c /\ ret'.was.pc # "check") =>
                /\ ret'.ok /\ ret'.val
                /\ OccursIn(LineOf(ret'.was.fact), memory_file'.content)
                /\ OccursIn(LineOf(ret'.was.fact), memory_content')
                /\ OccursIn(LineOf(ret'.was.fact), system_prompt')
                /\ system_prompt' = BasePrompt \o MemoryHeader \o memory_content'
                /\ memory_content' = memory_file'.content
      ]_vars

\* A fact was rejected that is part of a saved line and not a line itself.
C21_Witness ==
    /\ ret.op = "save" /\ ~ret.val
    /\ Core(ret.was.fact) # <<>>
    /\ ~OccursIn(LineOf(ret.was.fact), memory_content)
    /\ \E g \in saved : OccursIn(Core(ret.was.fact), Core(g))

\* C22: when clear_memory returns, the cached prompt is the base prompt (which
\* is not empty), the cached blob is empty and the file is absent, whatever
\* was saved before; a save_to_memory that follows, of a fact saved before, is
\* not rejected, and an accepted save returns true.
C22_ClearResetsToBasePrompt ==
    [][/\ (ret'.op = "clear" /\ ret'.ok) =>
              /\ ret'.val
              /\ system_prompt' = BasePrompt /\ system_prompt' # <<>>
              /\ memory_content' = <<>>
              /\ ~memory_file'.exists
       /\ (ret.op = "clear" /\ ret.ok /\ ret'.op = "save"
              /\ ret'.was.fact \in saved) => ret'.was.pc # "check"
       /\ (ret'.op = "save" /\ ret'.was.pc # "check") => ret'.val
      ]_vars

\* After a clear, a fact that was saved before is being saved again.
C22_Witness ==
    \E c \in Callers :
        /\ call[c].op = "save" /\ call[c].pc = "publish_prompt"
        /\ call[c].fact \in saved
        /\ system_prompt = BasePrompt
        /\ call[c].new_memory = LineOf(call[c].fact)

\* The prompt that goes with a fact blob.
PromptOf(blob) ==
    IF blob = <<>> THEN BasePrompt ELSE BasePrompt \o MemoryHeader \o blob

\* C23: whenever no save_to_memory and no clear_memory is in progress, the
\* cached prompt is the base prompt alone when the cached blob is empty, and
\* else the base prompt, the header and the cached blob.
C23_PromptBuiltFromBlob ==
    NoCallInProgress => system_prompt = PromptOf(memory_content)

\* C24: a reader that takes the read guards of the cached blob and of the
\* cached prompt while a save_to_memory or a clear_memory runs sees the two
\* as they were before the call or as they are after it: the prompt it reads
\* is the one that goes with the blob it reads.
C24_MutationIndivisibleForReaders ==
    \A c \in Callers :
        call[c].op \in {"save", "clear"} =>
            system_prompt = PromptOf(memory_content)

\* The number of places of the text h where the text n starts.
TimesIn(n, h) ==
    Cardinality({i \in 1..Len(h) :
                    /\ i + Len(n) - 1 <= Len(h)
                    /\ SubSeq(h, i, i + Len(n) - 1) = n})

\* C25: save_to_memory calls do not overlap between the containment test and
\* the publication, so that of two calls with the same text one returns false:
\* when all calls have returned, the file holds the line of a fact at most
\* once.
C25_OneMutatorAtATime ==
    /\ NoCallInProgress =>
          \A f \in RaceFacts : TimesIn(LineOf(f), memory_file.content) <= 1
    /\ Cardinality({c \in Callers :
                       call[c].op = "save" /\ call[c].pc = "publish_prompt"})
          <= 1

\* What loading the file yields: nothing when it is absent or blank.
Loaded(file) ==
    IF file.exists /\ Core(file.content) # <<>> THEN file.content ELSE <<>>

\* C26: whenever no save_to_memory and no clear_memory is in progress, the
\* cached blob is what loading the file yields.
C26_CacheMirrorsLog ==
    NoCallInProgress => memory_content = Loaded(memory_file)

\* The file is absent, or holds whitespace only.
Blank(file) == ~file.exists \/ Core(file.content) = <<>>

\* C27: an agent that is created on a file that is absent or holds whitespace
\* only starts with an empty cached blob and with the base prompt as its
\* cached prompt.
C27_BlankLogIsEmptyFactSet ==
    (ret.op = "new" /\ Blank(memory_file)) =>
        /\ memory_content = <<>>
        /\ system_prompt = BasePrompt

\* The agent was created on a file that holds whitespace only.
C27_Witness ==
    /\ ret.op = "new"
    /\ memory_file.exists
    /\ memory_file.content # <<>>
    /\ Core(memory_file.content) = <<>>

\* C28: chat never returns an error: it returns Ok with the reply of the
\* backend when the request succeeds, and Ok with an apology that carries the
\* error when the request fails.
C28_ChatAbsorbsBackendFailure ==
    ret.op = "chat" =>
        /\ ret.ok
        /\ ret.was.backend.kind = "reply" => ret.val = ret.was.backend.content
        /\ ret.was.backend.kind \in BackendFailures =>
              /\ Len(ret.val) = 2
              /\ ret.val[1] = "Sorry, I had trouble thinking about that. Error: "

\* A request failed and chat has returned.
C28_Witness ==
    /\ ret.op = "chat"
    /\ ret.was.backend.kind = "status"
    /\ \E c \in Callers : call[c].op = "respond"

\* All tokens of t from index a to index b are whitespace.
Space(t, a, b) == \A k \in a..b : t[k] \in {" ", "\n"}

\* The opening line of a block starts at index i and ends with the newline at
\* index p: the fence, the tag (with a file name for a save block) and nothing
\* else but whitespace.
OpensBlock(t, i, p) ==
    /\ t[i] = Fence /\ t[p] = "\n" /\ i + 1 < p
    /\ \/ t[i + 1] \in {"cron", "memory"} /\ Space(t, i + 2, p - 1)
       \/ /\ t[i + 1] = "save:"
          /\ \E n \in (i + 3)..p :
                /\ \A k \in (i + 2)..(n - 1) : t[k] \notin {" ", "\n"}
                /\ Space(t, n, p - 1)

\* The text has a block of one of the three kinds: an opening line, a body of
\* any number of lines, and a closing fence on a line of its own.
HasBlock(t) ==
    \E i \in 1..Len(t) :
        /\ t[i] = Fence
        /\ \E p \in (i + 2)..Len(t) :
              /\ OpensBlock(t, i, p)
              /\ \E j \in (p + 2)..Len(t) :
                    /\ t[j] = Fence
                    /\ \E q \in (p + 1)..(j - 1) :
                          t[q] = "\n" /\ Space(t, q + 1, j - 1)

\* C29: for a response without a block of the three kinds, clean_response
\* returns the response without the whitespace around it and otherwise as it
\* is, and parse_cron_blocks, parse_save_blocks and parse_memory_blocks return
\* no jobs, no errors, no files and no facts.
C29_NoBlockNothingParsed ==
    (ret.op = "parse" /\ ~HasBlock(ret.was.response)) =>
        /\ ret.val.clean = Core(ret.was.response)
        /\ ret.val.cron.jobs = <<>>
        /\ ret.val.cron.errors = <<>>
        /\ ret.val.saves = <<>>
        /\ ret.val.facts = <<>>

\* A response without a block was parsed that has whitespace around it and an
\* opening line of a block in it.
C29_Witness ==
    /\ ret.op = "parse" /\ ~HasBlock(ret.was.response)
    /\ ret.was.response # Core(ret.was.response)
    /\ \E i \in 1..Len(ret.was.response), p \in 1..Len(ret.was.response) :
          i < p /\ OpensBlock(ret.was.response, i, p)

\* The members of the one JSON object of the text, in their order.
MembersOf(t) == SelectSeq(t, LAMBDA tok : tok \in MemberTokens)

\* The text is prose around one schedule block whose body is a JSON object
\* with the keys schedule, task and message, each once and with a string as
\* its value, the schedule of 5 fields.
OneValidScheduleBlock(t) ==
    /\ t \in CronTexts
    /\ \E k \in 1..Len(t) : t[k] = "}"
    /\ Len(MembersOf(t)) = 3
    /\ {MembersOf(t)[k] : k \in 1..3} = {"S5", "T", "M"}

\* C30: a schedule block whose body is a JSON object with the keys schedule,
\* task and message and a schedule of 5 fields yields one job and no error,
\* and the job has the schedule, the task and the message of the object.
C30_ValidBlockYieldsOneRequest ==
    (ret.op = "parse" /\ OneValidScheduleBlock(ret.was.response)) =>
        /\ ret.val.cron.jobs =
              <<[schedule |-> "every", task |-> "t1", message |-> "m1"]>>
        /\ ret.val.cron.errors = <<>>

\* The key of a member of a JSON object.
KeyOf(tok) ==
    CASE tok \in {"S5", "S4", "Sn"} -> "schedule"
      [] tok \in {"T", "Tn"} -> "task"
      [] tok \in {"M", "M2"} -> "message"

\* The required keys that the one JSON object of the text lacks.
Lacking(t) ==
    {"schedule", "task", "message"}
        \ {KeyOf(MembersOf(t)[k]) : k \in 1..Len(MembersOf(t))}

\* The text is prose around one schedule block whose body is a JSON object.
OneObjectBlock(t) ==
    /\ t \in CronTexts
    /\ \E k \in 1..Len(t) : t[k] = "}"

\* The error is "Missing required fields: " and the keys of the set, each
\* once, with ", " between them.
NamesMissing(e, keys) ==
    /\ Len(e) = 2 * Cardinality(keys)
    /\ e[1] = "Missing required fields: "
    /\ {e[2 * k] : k \in 1..Cardinality(keys)} = keys
    /\ \A k \in 2..Cardinality(keys) : e[2 * k - 1] = ", "

\* C31: a schedule block whose JSON object lacks one or more of the keys
\* schedule, task and message yields no job and one error, "Missing required
\* fields: " with the missing keys joined by commas.
C31_MissingKeysYieldOneError ==
    (ret.op = "parse" /\ OneObjectBlock(ret.was.response)
       /\ Lacking(ret.was.response) # {}) =>
        /\ ret.val.cron.jobs = <<>>
        /\ Len(ret.val.cron.errors) = 1
        /\ NamesMissing(ret.val.cron.errors[1], Lacking(ret.was.response))

\* The text is prose around one schedule block whose body is a JSON object
\* with the keys schedule, task and message, each once and with a string as
\* its value, the schedule of 4 fields.
OneShortScheduleBlock(t) ==
    /\ OneObjectBlock(t)
    /\ Len(MembersOf(t)) = 3
    /\ {MembersOf(t)[k] : k \in 1..3} = {"S4", "T", "M"}

\* C32: a schedule block with the three keys whose schedule has not 5 fields
\* yields no job and one error, which gives the schedule as it was written.
C32_WrongFieldCountYieldsError ==
    (ret.op = "parse" /\ OneShortScheduleBlock(ret.was.response)) =>
        /\ ret.val.cron.jobs = <<>>
        /\ Len(ret.val.cron.errors) = 1
        /\ ret.val.cron.errors[1][1] = "Invalid cron format '"
        /\ ret.val.cron.errors[1][2] = "four"

\* The places of the text where a schedule block opens.
CronAt(t) == {k \in 1..Len(t) : t[k] = "cron"}

\* The block that opens at p, up to the next one.
Segment(t, p) ==
    SubSeq(t, p, Min({q \in CronAt(t) : q > p} \cup {Len(t) + 1}) - 1)

\* What a block is: "job" when its body is an object with the three keys and
\* a schedule of 5 fields, and else the error it has to be reported with.
Outcome(seg) ==
    IF \E k \in 1..Len(seg) : seg[k] = "x" /\ seg[k - 1] = "\n" /\ seg[k - 2] = "cron"
    THEN "Invalid JSON in cron block"
    ELSE IF {"schedule", "task", "message"}
              # {KeyOf(MembersOf(seg)[k]) : k \in 1..Len(MembersOf(seg))}
    THEN "Missing required fields: "
    ELSE IF \E k \in 1..Len(seg) : seg[k] = "S4"
    THEN "Invalid cron format '"
    ELSE "job"

\* The messages of the well-formed blocks from index k on, in their order.
RECURSIVE ExpectedMessages(_, _)
ExpectedMessages(t, k) ==
    IF k > Len(t) THEN <<>>
    ELSE (IF k \in CronAt(t) /\ Outcome(Segment(t, k)) = "job"
          THEN <<IF \E i \in 1..Len(Segment(t, k)) : Segment(t, k)[i] = "M2"
                 THEN "m2" ELSE "m1">>
          ELSE <<>>) \o ExpectedMessages(t, k + 1)

\* The errors of the other blocks from index k on, in their order.
RECURSIVE ExpectedErrors(_, _)
ExpectedErrors(t, k) ==
    IF k > Len(t) THEN <<>>
    ELSE (IF k \in CronAt(t) /\ Outcome(Segment(t, k)) # "job"
          THEN <<Outcome(Segment(t, k))>>
          ELSE <<>>) \o ExpectedErrors(t, k + 1)

\* C33: of a response with N schedule blocks every block yields one job or
\* one error: the jobs are those of the well-formed blocks in their order, the
\* errors those of the other blocks in their order, and jobs and errors are N
\* together.
C33_EveryBlockParsedOrReported ==
    (ret.op = "parse" /\ ret.was.response \in BlockTexts) =>
        /\ Len(ret.val.cron.jobs) + Len(ret.val.cron.errors)
              = Cardinality(CronAt(ret.was.response))
        /\ [k \in 1..Len(ret.val.cron.jobs) |-> ret.val.cron.jobs[k].message]
              = ExpectedMessages(ret.was.response, 1)
        /\ [k \in 1..Len(ret.val.cron.errors) |-> ret.val.cron.errors[k][1]]
              = ExpectedErrors(ret.was.response, 1)

\* C34: the text clean_response returns has no schedule, save or memory
\* block left, whether the body of the block was of one line or of several, has
\* nothing left that parse_cron_blocks, parse_save_blocks or
\* parse_memory_blocks would take for a block, and has no whitespace around
\* it; a response without such a block is returned as it is but for the trim.
C34_CleanRemovesEveryBlock ==
    ret.op = "parse" =>
        /\ ~HasBlock(ret.val.clean)
        /\ \A kind \in {"cron", "save", "memory"} :
              captures_iter(ret.val.clean, 1, kind) = <<>>
        /\ ret.val.clean = Core(ret.val.clean)
        /\ ~HasBlock(ret.was.response) =>
              ret.val.clean = Core(ret.was.response)

\* C35: an occurrence of a job is fired at most once: the fire time a task
\* computes after the fan-out of a fire event is later than the fire time of
\* that event.
C35_OneFirePerOccurrence ==
    [][\A t \in Tasks :
         (/\ t <= Len(tasks')
          /\ tasks[t].pc = "in_callback"
          /\ tasks'[t].pc \in {"sleep", "trigger"}) =>
             tasks'[t].next > tasks[t].next]_vars

\* A thread holds one of the two locks while it waits for the other.
HoldsAndWaits ==
    \/ \E t \in cbReaders :
          TaskW(t) \in Waiting(jobsQueue) \/ AtJobsWrite(TaskW(t))
    \/ /\ jobsHolder.kind = "task"
       /\ [kind |-> "r", who |-> jobsHolder.who] \in Waiting(cbQueue)
    \/ /\ jobsHolder.kind = "caller"
       /\ [kind |-> "w", who |-> jobsHolder.who] \in Waiting(cbQueue)

\* The holder of the lock of the timers can run its critical section, which
\* drops the guard.
JobsHolderCanGoOn ==
    CASE jobsHolder.kind = "caller" ->
           ENABLED (ScheduleInsert(jobsHolder.who)
                      \/ CancelJobRemove(jobsHolder.who))
      [] jobsHolder.kind = "task" ->
           ENABLED (TaskRemove(jobsHolder.who) \/ TaskShutdown(jobsHolder.who))
      [] OTHER -> jobsQueue = <<>>

\* Every holder of a read guard of the registry can go on with its fan-out,
\* at the end of which it drops the guard; and the first waiter gets the lock
\* as soon as the lock allows it.
RegistryCanGoOn ==
    /\ \A t \in cbReaders :
          ENABLED (TaskCallbackDone(t) \/ TaskShutdown(t))
    /\ cbQueue # <<>> =>
          LET h == Head(cbQueue)
          IN  IF h.kind = "r"
              THEN ENABLED (TaskGranted(h.who) \/ TaskShutdown(h.who))
              ELSE cbReaders = {} => ENABLED RegisterWrite(h.who)

\* C36: the engine is deadlock-free: no thread holds one of the two locks
\* while it waits for the other, and whoever holds a lock that others wait
\* for can take the step that releases it (the queues are FIFO, so every
\* waiter is served after finitely many such steps).
C36_DeadlockFree ==
    /\ ~HoldsAndWaits
    /\ JobsHolderCanGoOn
    /\ RegistryCanGoOn

\* Both locks are contended at once: a thread waits for the lock of the
\* timers while a registration waits behind a fan-out in progress.
C36_Witness ==
    /\ jobsQueue # <<>>
    /\ cbQueue # <<>>
    /\ cbReaders # {}
    /\ Head(cbQueue).kind = "w"

\* Task t is armed: it runs, was not aborted, and waits for a fire time that
\* lies within the time the model covers (or for the registry, to fire).
Armed(t) ==
    /\ t <= Len(tasks)
    /\ tasks[t].pc \in {"sleep", "trigger", "lock_wait"}
    /\ tasks[t].next # None
    /\ tasks[t].next <= MaxTime
    /\ ~tasks[t].aborted

\* The fan-out of task t runs.
FanOut(t) == t <= Len(tasks) /\ tasks[t].pc = "in_callback"

\* Task t was aborted (by cancel_job) or has ended.
Cancelled(t) == t <= Len(tasks) /\ (tasks[t].aborted \/ Ended(t))

\* Task t waits for its next fire time, or its schedule has no occurrence
\* left and its loop has ended.
RearmedOrExhausted(t) ==
    /\ t <= Len(tasks)
    /\ \/ tasks[t].pc \in {"sleep", "trigger", "lock_wait"}
       \/ tasks[t].pc \in {"remove", "jobs_wait", "finished"}

\* C37: under fair scheduling and with callbacks that terminate, a running
\* timer task that has a next fire time eventually runs its fan-out unless it
\* is cancelled first, and after the fan-out it is re-armed or exhausted.
C37_ArmedJobsFire ==
    \A t \in 1..MaxTasks :
        /\ Armed(t) ~> (FanOut(t) \/ Cancelled(t))
        /\ FanOut(t) ~> (RearmedOrExhausted(t) \/ Cancelled(t))

\* A job has fired while a second consumer was registered, and its task was
\* re-armed for its next occurrence.
C37_Witness ==
    \E t \in Tasks :
        /\ hist[tasks[t].job_id].fired
        /\ Len(callbacks) = 2
        /\ tasks[t].pc = "sleep"
        /\ tasks[t].next > MaxTime

\* C38: once stop() has returned, no timer task calls a callback.
C38_NoInvokeAfterStop ==
    [][stopped => \A t \in Tasks : ~Invokes(t)]_vars

\* The step in which save_file of caller c writes its file.
Writes(c) ==
    /\ call[c].op = "save_file"
    /\ call[c].pc = "write"
    /\ call'[c].op = "idle"

\* C39: save_file never overwrites an existing file: the path it writes to
\* does not exist when it writes (so two saves under one name end up in two
\* files, each with the content of its own call).
C39_NeverOverwrites ==
    [][\A c \in Callers : Writes(c) => ~exists(call[c].final_path)]_vars
====
